---------------------------- MODULE Spec2Model ----------------------------
(***************************************************************************)
(* Marketing daily-brief agent: the LangGraph pipeline of                  *)
(* src/agents/agent.ts and src/agents/nodes.ts, the metric calculators of  *)
(* services/data-analysis, the trend composition of utils/trend-analysis   *)
(* and the date-range filters of utils/date-utils.                         *)
(*                                                                         *)
(* Encodings.                                                              *)
(*  - A JavaScript number that may be fractional is an exact rational      *)
(*    <<numerator, denominator>> in lowest terms with denominator > 0.     *)
(*    (IEEE rounding is not modelled; every value used here is exact in    *)
(*    binary64 or is compared only with itself.)                           *)
(*  - A YYYY-MM-DD string is its day ordinal counted from 2023-12-31       *)
(*    (2024-01-01 = 1), so lexicographic order of well-formed dates is     *)
(*    integer order; the empty string is 0 and sorts before every date.    *)
(*  - A date-time string is the sequence of its space-separated tokens;    *)
(*    <<>> stands for `undefined` (the CSV column is absent).              *)
(*  - An optional field of the agent state is <<>> (undefined) or <<v>>.   *)
(***************************************************************************)
EXTENDS Integers, Sequences, FiniteSets, TLC

VARIABLES
    disk,       \* the input directory: file name -> [exists, rows]
    next,       \* the node the graph runs next ("__start__", a node, "__end__")
    state,      \* the accumulated AgentState
    trace,      \* the nodes executed so far, in order
    periods,    \* per analysis stage: the record sets handed to the trend function
    timeZone,   \* the time zone of the process (TZ)
    argv,       \* the command-line arguments after the script path
    exitCode,   \* <<>> while the process runs, <<code>> once it has exited
    written,    \* the files written to the output directory
    llmCalls,   \* the stages that called the language-model service, in order
    input,      \* pure-function harness: the argument record sets
    output      \* pure-function harness: <<function name, result>>

vars == <<disk, next, state, trace, periods, timeZone, argv, exitCode, written,
          llmCalls, input, output>>

-----------------------------------------------------------------------------
(* Exact rational arithmetic standing for JavaScript numbers.              *)

Abs(n) == IF n < 0 THEN -n ELSE n

RECURSIVE GCD(_, _)
GCD(a, b) == IF b = 0 THEN a ELSE GCD(b, a % b)

Norm(n, d) ==
    LET sn == IF d < 0 THEN -n ELSE n
        sd == Abs(d)
        g  == GCD(Abs(sn), sd)
    IN  <<sn \div g, sd \div g>>

R(n) == <<n, 1>>
RAdd(a, b) == Norm(a[1] * b[2] + b[1] * a[2], a[2] * b[2])
RSub(a, b) == Norm(a[1] * b[2] - b[1] * a[2], a[2] * b[2])
RMul(a, b) == Norm(a[1] * b[1], a[2] * b[2])
RDiv(a, b) == Norm(a[1] * b[2], a[2] * b[1])
RLt(a, b) == a[1] * b[2] < b[1] * a[2]
RLe(a, b) == a[1] * b[2] <= b[1] * a[2]
RAbs(a) == <<Abs(a[1]), a[2]>>
RMax(a, b) == IF RLt(a, b) THEN b ELSE a

\* Number.prototype.toFixed(2): the value rounded to two decimals.
toFixed2(a) ==
    LET scaled == a[1] * 100
        q == (2 * Abs(scaled) + a[2]) \div (2 * a[2])
    IN  Norm(IF a[1] < 0 THEN -q ELSE q, 100)

-----------------------------------------------------------------------------
(* Generic sequence helpers (Array.prototype.map / filter / reduce / Set). *)

Range(s) == {s[i] : i \in 1..Len(s)}

RECURSIVE SumR(_, _)
\* reduce((sum, x) => sum + f(x), 0) over the rational field `field`
SumR(s, field) ==
    IF s = <<>> THEN R(0)
    ELSE RAdd(SumR(SubSeq(s, 1, Len(s) - 1), field), s[Len(s)][field])

\* All sequences over `dom` of length at most `n`.
SeqsUpTo(dom, n) == UNION {[1..k -> dom] : k \in 0..n}

None == <<>>
Some(v) == <<v>>


-----------------------------------------------------------------------------
(* services/data-analysis: the metric calculators.                         *)

\* new Set(transactions.filter(tx => tx.ch_isFirstClientPaid).map(tx => tx.mcId))
FirstPaidClients(transactions) ==
    {transactions[i].mcId : i \in {j \in 1..Len(transactions) : transactions[j].ch_isFirstClientPaid}}

calculateROAS_SpendPerRecord(transactions, sourceData) ==
    LET totalRevenue == SumR(transactions, "paidSumOriginalCurrency")
        totalAdSpend == SumR(sourceData, "budgetSpent")
    IN  IF totalAdSpend = R(0) THEN R(0)
        ELSE RDiv(totalRevenue, R(Len(sourceData)))

calculateROAS(transactions, sourceData) ==
    LET totalRevenue == SumR(transactions, "paidSumOriginalCurrency")
        totalAdSpend == SumR(sourceData, "budgetSpent")
    IN  IF totalAdSpend = R(0) THEN R(0)
        ELSE RDiv(totalRevenue, totalAdSpend)

calculateCAC_PerTransaction(transactions, sourceData) ==
    LET firstPaid == SelectSeq(transactions, LAMBDA tx : tx.ch_isFirstClientPaid)
        totalAdSpend == SumR(sourceData, "budgetSpent")
    IN  IF Len(firstPaid) = 0 THEN R(0)
        ELSE RDiv(totalAdSpend, R(Len(firstPaid)))

calculateCAC(transactions, sourceData) ==
    LET uniqueCustomers == Cardinality(FirstPaidClients(transactions))
        totalAdSpend == SumR(sourceData, "budgetSpent")
    IN  IF uniqueCustomers = 0 THEN R(0)
        ELSE RDiv(totalAdSpend, R(uniqueCustomers))

\* s.mcid || s.userPseudoId
SessionIdentity(s) == IF s.mcid # "" THEN s.mcid ELSE s.userPseudoId

\* One entry of ConversionAnalysis["stages"] as calculateConversionRates builds it.
Stage(name, rate) ==
    [name |-> name, current |-> rate, previous |-> R(0),
     percentageChange |-> R(0), isSignificant |-> FALSE]

\* (numerator / denominator) * 100, or 0 when the denominator count is 0
Rate(numerator, denominator) ==
    IF denominator > 0 THEN RMul(RDiv(R(numerator), R(denominator)), R(100)) ELSE R(0)

calculateConversionRates_PseudoIdOnly(sessions, leads, contacts, transactions) ==
    LET uniqueVisitors  == Cardinality({s.userPseudoId : s \in Range(sessions)})
        uniqueLeads     == Cardinality({l.mcId : l \in Range(leads)})
        uniqueContacts  == Cardinality({c.mcId : c \in Range(contacts)})
        uniqueCustomers == Cardinality(FirstPaidClients(transactions))
    IN  << Stage("Visitor to Lead", Rate(uniqueLeads, uniqueVisitors)),
           Stage("Lead to Contact", Rate(uniqueContacts, uniqueLeads)),
           Stage("Contact to Customer", Rate(uniqueCustomers, uniqueContacts)),
           Stage("Overall (Visitor to Customer)", Rate(uniqueCustomers, uniqueVisitors)) >>

calculateConversionRates(sessions, leads, contacts, transactions) ==
    LET uniqueVisitors  == Cardinality({SessionIdentity(s) : s \in Range(sessions)})
        uniqueLeads     == Cardinality({l.mcId : l \in Range(leads)})
        uniqueContacts  == Cardinality({c.mcId : c \in Range(contacts)})
        uniqueCustomers == Cardinality(FirstPaidClients(transactions))
    IN  << Stage("Visitor to Lead", Rate(uniqueLeads, uniqueVisitors)),
           Stage("Lead to Contact", Rate(uniqueContacts, uniqueLeads)),
           Stage("Contact to Customer", Rate(uniqueCustomers, uniqueContacts)),
           Stage("Overall (Visitor to Customer)", Rate(uniqueCustomers, uniqueVisitors)) >>

\* The default value of isChangeSigificant's `threshold` parameter.
DefaultThreshold == 10

DEFAULT_HISTORICAL_DAYS == 7
DEFAULT_SIGNIFICANT_CHANGE_THRESHOLD == 10

\* config.analysis: parseInt(process.env.X || DEFAULT_X.toString())
config(env) ==
    [analysis |->
        [historicalDays |->
             IF env.HISTORICAL_DAYS = None THEN DEFAULT_HISTORICAL_DAYS
             ELSE env.HISTORICAL_DAYS[1],
         significantChangeThreshold |->
             IF env.SIGNIFICANT_CHANGE_THRESHOLD = None
             THEN DEFAULT_SIGNIFICANT_CHANGE_THRESHOLD
             ELSE env.SIGNIFICANT_CHANGE_THRESHOLD[1]]]

isChangeSigificant_Strict(current, previous, threshold) ==
    IF previous = R(0) THEN RLt(R(0), current)
    ELSE LET percentageChange ==
                 RAbs(RMul(RDiv(RSub(current, previous), previous), R(100)))
         IN  RLt(R(threshold), percentageChange)

isChangeSigificant(current, previous, threshold) ==
    IF previous = R(0) THEN RLt(R(0), current)
    ELSE LET percentageChange ==
                 RAbs(RMul(RDiv(RSub(current, previous), previous), R(100)))
         IN  RLe(R(threshold), percentageChange)

-----------------------------------------------------------------------------
(* utils/trend-analysis: current against previous period.                  *)

\* previous > 0 ? ((current - previous) / previous) * 100 : 0
PercentageChange(current, previous) ==
    IF RLt(R(0), previous)
    THEN RMul(RDiv(RSub(current, previous), previous), R(100))
    ELSE R(0)

\* previous > 0 ? isChangeSigificant(current, previous) : false
Significant(current, previous) ==
    IF RLt(R(0), previous)
    THEN isChangeSigificant(current, previous, DefaultThreshold)
    ELSE FALSE

Trend(current, previous) ==
    [current |-> current, previous |-> previous,
     percentageChange |-> PercentageChange(current, previous),
     isSignificant |-> Significant(current, previous)]

\* A composer that carries the current metrics forward when a previous
\* record set is empty.
calculateMetricsTrend_CarriesCurrent(currentTransactions, currentSourceData, previousTransactions, previousSourceData) ==
    LET currentROAS == calculateROAS(currentTransactions, currentSourceData)
        currentCAC  == calculateCAC(currentTransactions, currentSourceData)
        available   == Len(previousTransactions) > 0 /\ Len(previousSourceData) > 0
        previousROAS == IF available
                        THEN calculateROAS(previousTransactions, previousSourceData)
                        ELSE currentROAS
        previousCAC  == IF available
                        THEN calculateCAC(previousTransactions, previousSourceData)
                        ELSE currentCAC
    IN  [roas |-> Trend(currentROAS, previousROAS),
         cac  |-> Trend(currentCAC, previousCAC)]

calculateMetricsTrend(currentTransactions, currentSourceData, previousTransactions, previousSourceData) ==
    LET currentROAS == calculateROAS(currentTransactions, currentSourceData)
        currentCAC  == calculateCAC(currentTransactions, currentSourceData)
        available   == Len(previousTransactions) > 0 /\ Len(previousSourceData) > 0
        previousROAS == IF available
                        THEN calculateROAS(previousTransactions, previousSourceData)
                        ELSE R(0)
        previousCAC  == IF available
                        THEN calculateCAC(previousTransactions, previousSourceData)
                        ELSE R(0)
    IN  [roas |-> Trend(currentROAS, previousROAS),
         cac  |-> Trend(currentCAC, previousCAC)]

calculateConversionsTrend(currentSessions, currentLeads, currentContacts, currentTransactions, previousSessions, previousLeads, previousContacts, previousTransactions) ==
    LET currentConversions ==
            calculateConversionRates(currentSessions, currentLeads,
                                     currentContacts, currentTransactions)
        previousConversions ==
            calculateConversionRates(previousSessions, previousLeads,
                                     previousContacts, previousTransactions)
    IN  [index \in 1..Len(currentConversions) |->
            LET stage == currentConversions[index]
                previous == IF index \in DOMAIN previousConversions
                            THEN previousConversions[index].current
                            ELSE R(0)
            IN  [stage EXCEPT !.previous = previous,
                              !.percentageChange = PercentageChange(stage.current, previous),
                              !.isSignificant = Significant(stage.current, previous)]]

-----------------------------------------------------------------------------
(* services/data-analysis: channel distribution, validity, reasons.        *)

\* A line of text carrying at most one formatted number.
Msg(text) == [msg |-> text, num |-> R(0)]
MsgN(text, n) == [msg |-> text, num |-> n]

RECURSIVE DistinctInOrder(_)
\* The keys of a Map filled by walking `s`: distinct values, first occurrence first.
DistinctInOrder(s) ==
    IF s = <<>> THEN <<>>
    ELSE LET rest == DistinctInOrder(SubSeq(s, 1, Len(s) - 1))
             x == s[Len(s)]
         IN  IF x \in Range(rest) THEN rest ELSE Append(rest, x)

analyzeChannelDistribution(sessions, atoms) ==
    LET totalSessions == Len(sessions)
        groups == DistinctInOrder([i \in 1..Len(atoms) |-> atoms[i].sourceGroupName])
        count(g) == Cardinality({i \in 1..Len(atoms) : atoms[i].sourceGroupName = g})
        divisor == IF totalSessions > 1 THEN totalSessions ELSE 1
    IN  [k \in 1..Len(groups) |->
            [name |-> groups[k],
             current |-> [sessions |-> count(groups[k]),
                          percentage |-> RMul(RDiv(R(count(groups[k])), R(divisor)), R(100))],
             previous |-> [sessions |-> 0, percentage |-> R(0)],
             change |-> R(0)]]

calculateChannelsTrend(currentSessions, previousSessions, atoms) ==
    LET currentChannels == analyzeChannelDistribution(currentSessions, atoms)
        previousChannels == analyzeChannelDistribution(previousSessions, atoms)
        found(name) == {k \in 1..Len(previousChannels) : previousChannels[k].name = name}
        \* Map.set keeps the last value written for a key
        lookup(name) ==
            IF found(name) = {} THEN [sessions |-> 0, percentage |-> R(0)]
            ELSE previousChannels[CHOOSE k \in found(name) : \A j \in found(name) : j <= k].current
    IN  [i \in 1..Len(currentChannels) |->
            LET currentChannel == currentChannels[i]
                previousData == lookup(currentChannel.name)
                change == IF RLt(R(0), previousData.percentage)
                          THEN RMul(RDiv(RSub(currentChannel.current.percentage,
                                              previousData.percentage),
                                         previousData.percentage), R(100))
                          ELSE R(0)
            IN  [currentChannel EXCEPT !.previous = previousData, !.change = change]]

\* The expected-volume constant of checkDataValidity.
expectedSessionsPerDay == 1000

\* A volume rule that only looks at non-empty session sets.
sessionVolumeIsLow_NonEmptyOnly(sessionsPerDay) ==
    sessionsPerDay > 0 /\ sessionsPerDay * 10 < expectedSessionsPerDay * 7

\* sessionsPerDay < expectedSessionsPerDay * 0.7
sessionVolumeIsLow(sessionsPerDay) == sessionsPerDay * 10 < expectedSessionsPerDay * 7

checkDataValidity(sessions, leads, contacts, transactions, sourceData, atoms) ==
    LET empties ==
            (IF Len(sessions) = 0 THEN <<Msg("Sessions dataset is empty")>> ELSE <<>>)
         \o (IF Len(leads) = 0 THEN <<Msg("Leads dataset is empty")>> ELSE <<>>)
         \o (IF Len(contacts) = 0 THEN <<Msg("Contacts dataset is empty")>> ELSE <<>>)
         \o (IF Len(transactions) = 0 THEN <<Msg("Transactions dataset is empty")>> ELSE <<>>)
         \o (IF Len(sourceData) = 0 THEN <<Msg("Source data dataset is empty")>> ELSE <<>>)
         \o (IF Len(atoms) = 0 THEN <<Msg("Atoms dataset is empty")>> ELSE <<>>)
        sessionMcIds == {s.mcid : s \in {x \in Range(sessions) : x.mcid # ""}}
        leadMcIds == {l.mcId : l \in Range(leads)}
        contactMcIds == {c.mcId : c \in Range(contacts)}
        transactionMcIds == {t.mcId : t \in Range(transactions)}
        leadsWithoutSessions == leadMcIds \ sessionMcIds
        transactionsWithoutContacts == transactionMcIds \ contactMcIds
        leadGap == Cardinality(leadsWithoutSessions) > 0
        txGap == Cardinality(transactionsWithoutContacts) > 0
        lowVolume == sessionVolumeIsLow(Len(sessions))
        issues ==
            empties
         \o (IF leadGap
             THEN <<MsgN("% of leads have no corresponding session data",
                         toFixed2(RMul(RDiv(R(Cardinality(leadsWithoutSessions)),
                                            R(Cardinality(leadMcIds))), R(100))))>>
             ELSE <<>>)
         \o (IF txGap
             THEN <<MsgN("% of transactions have no corresponding contact data",
                         toFixed2(RMul(RDiv(R(Cardinality(transactionsWithoutContacts)),
                                            R(Cardinality(transactionMcIds))), R(100))))>>
             ELSE <<>>)
         \o (IF lowVolume
             THEN <<MsgN("Session volume is significantly lower than expected",
                         R(Len(sessions)))>>
             ELSE <<>>)
        suggestions ==
            (IF leadGap
             THEN <<"Improve session tracking to ensure all leads have associated session data">>
             ELSE <<>>)
         \o (IF txGap
             THEN <<"Improve contact tracking to ensure all transactions have associated contact data">>
             ELSE <<>>)
         \o (IF lowVolume
             THEN <<"Check if there are tracking issues or a genuine decrease in traffic">>
             ELSE <<>>)
    IN  [isValid |-> Len(issues) = 0, issues |-> issues, suggestions |-> suggestions]

generatePossibleReasons(metricName, current, previous, sessions, sourceData, atoms) ==
    LET increased == RLt(previous, current)
        generic ==
            IF metricName = "ROAS"
            THEN IF increased
                 THEN << Msg("Improved ad targeting may have led to higher conversion rates"),
                         Msg("Better performing products or offers could be driving higher order values"),
                         Msg("Seasonal effects might be positively impacting purchasing behavior") >>
                 ELSE << Msg("Ad costs may have increased without a corresponding increase in revenue"),
                         Msg("Ad targeting may be less effective, reaching less qualified prospects"),
                         Msg("Competitive landscape may have changed, affecting conversion rates") >>
            ELSE IF metricName = "CAC"
            THEN IF increased
                 THEN << Msg("Rising ad costs in the market may be increasing acquisition costs"),
                         Msg("Decreased ad effectiveness could be requiring more spend per acquisition"),
                         Msg("Market saturation might be making it harder to find new customers") >>
                 ELSE << Msg("Improved targeting strategies may be more efficiently acquiring customers"),
                         Msg("Optimization of ad spend across channels could be reducing waste"),
                         Msg("Increased brand awareness might be lowering the cost to convert customers") >>
            ELSE <<>>
        \* a.isPaidName.toLowerCase() === "paid"
        paidAtomIds == {a.atomId : a \in {x \in Range(atoms) : x.isPaidName \in {"paid", "Paid", "PAID"}}}
        paidSourceData == SelectSeq(sourceData, LAMBDA sd : sd.atomId \in paidAtomIds)
        totalPaidSpend == SumR(paidSourceData, "budgetSpent")
        totalPaidClicks == SumR(paidSourceData, "clicks")
        cpc == IF RLt(R(0), totalPaidClicks) THEN RDiv(totalPaidSpend, totalPaidClicks) ELSE R(0)
    IN  generic
     \o (IF RLt(R(0), totalPaidSpend)
         THEN <<MsgN("Average cost per click across paid channels is", toFixed2(cpc))>>
         ELSE <<>>)

-----------------------------------------------------------------------------
(* services/report-improvements: the two advisory generators.              *)

\* count / total > tenths / 10, for total > 0
ShareAbove(count, total, tenths) == total > 0 /\ count * 10 > tenths * total

generateDataQualityImprovements(sessions, leads, contacts, transactions, sourceData, atoms) ==
    LET sessionsWithoutClientIds == Len(SelectSeq(sessions, LAMBDA s : s.mcid = ""))
        totalSessions == Len(sessions)
        leadsWithoutGoogleClientIds == Len(SelectSeq(leads, LAMBDA l : l.googleClientId = ""))
        totalLeads == Len(leads)
        leadsMcIds == {l.mcId : l \in Range(leads)}
        contactsMcIds == {c.mcId : c \in Range(contacts)}
        leadsNotConvertedToContacts == Cardinality(leadsMcIds \ contactsMcIds)
        dataCollection ==
            (IF ShareAbove(sessionsWithoutClientIds, totalSessions, 1)
             THEN <<MsgN("Improve client ID tracking in sessions - currently missing in % of sessions",
                         toFixed2(RMul(RDiv(R(sessionsWithoutClientIds), R(totalSessions)), R(100))))>>
             ELSE <<>>)
         \o (IF ShareAbove(leadsWithoutGoogleClientIds, totalLeads, 1)
             THEN <<MsgN("Improve Google Client ID tracking in leads - currently missing in % of leads",
                         toFixed2(RMul(RDiv(R(leadsWithoutGoogleClientIds), R(totalLeads)), R(100))))>>
             ELSE <<>>)
         \o << Msg("Implement server-side tracking to reduce data loss from ad blockers"),
               Msg("Enhance user identification with consistent first-party cookies across domains"),
               Msg("Validate UTM parameters for consistency and accuracy across marketing campaigns") >>
        attribution ==
            (IF ShareAbove(leadsNotConvertedToContacts, Cardinality(leadsMcIds), 8)
             THEN <<"High drop-off rate between leads and contacts - investigate lead qualification process">>
             ELSE <<>>)
         \o << "Implement multi-touch attribution modeling to better understand the full customer journey",
               "Consider time-decay models to give appropriate credit to touchpoints based on recency",
               "Add view-through attribution for display and video channels to capture impression impact" >>
    IN  [dataCollection |-> dataCollection, attribution |-> attribution]

generateReportingImprovements(sessions, leads, contacts, transactions, sourceData, atoms) ==
    LET channelGroups == {a.sourceGroupName : a \in Range(atoms)}
        deviceCategories == {s.deviceCategory : s \in Range(sessions)}
        manyChannels == Cardinality(channelGroups) > 3
        manyDevices == Cardinality(deviceCategories) > 1
        additionalMetrics ==
            << "Customer Lifetime Value (CLV) to better assess long-term customer profitability",
               "Visitor-to-Lead Conversion Rate by channel to identify top-performing acquisition sources",
               "Cost Per Lead (CPL) broken down by campaign to optimize lead generation efforts",
               "Customer retention rate and churn metrics to monitor customer satisfaction" >>
         \o (IF manyChannels
             THEN <<"Channel-specific CAC and ROAS metrics to better compare performance across marketing channels">>
             ELSE <<>>)
         \o (IF manyDevices
             THEN <<"Conversion rate by device type to identify platform-specific optimization opportunities">>
             ELSE <<>>)
        visualizations ==
            << "Multi-touch attribution funnel visualization showing channel impact at each customer journey stage",
               "Geographic heat map of customer concentration to identify regional performance patterns",
               "Cohort analysis chart to track how customer behavior evolves over time",
               "Campaign ROI comparison dashboard with time-series view for trend analysis" >>
         \o (IF manyChannels
             THEN <<"Channel mix optimization tool to simulate budget allocation scenarios">>
             ELSE <<>>)
         \o (IF manyDevices
             THEN <<"Device performance comparison dashboard showing conversion funnel by device type">>
             ELSE <<>>)
        automations ==
            << "Implement automated anomaly detection to flag unusual changes in conversion metrics",
               "Set up regular data quality audits to identify and fix tracking issues",
               "Create automated alerting for significant drops in channel performance",
               "Develop predictive models to forecast future conversion trends based on current data" >>
    IN  [additionalMetrics |-> additionalMetrics,
         visualizations |-> visualizations,
         automations |-> automations]

-----------------------------------------------------------------------------
(* utils/date-utils: the lookback start and the date-range filters.        *)

\* The lookback the analysis stages pass to calculatePreviousPeriodStartDate.
LookbackDays == 30

\* The default value of calculatePreviousPeriodStartDate's `lookbackDays` parameter.
DefaultLookbackDays == 30

\* A Date is its time value in hours since 2023-12-31T00:00Z.  A time zone
\* is its standard and daylight offsets (hours east of UTC) and the local
\* wall-clock hours at which daylight time starts and ends in 2024.
UTC == [name |-> "UTC", standard |-> 0, daylight |-> 0, dstFrom |-> 0, dstTo |-> 0]
Berlin ==
    [name |-> "Europe/Berlin", standard |-> 1, daylight |-> 2,
     dstFrom |-> 24 * 91 + 2, dstTo |-> 24 * 301 + 3]
LosAngeles ==
    [name |-> "America/Los_Angeles", standard |-> -8, daylight |-> -7,
     dstFrom |-> 24 * 70 + 2, dstTo |-> 24 * 308 + 2]

\* The offset in force at the UTC time t / at the local wall-clock time l.
OffsetAtUTC(tz, t) ==
    IF t >= tz.dstFrom - tz.standard /\ t < tz.dstTo - tz.daylight
    THEN tz.daylight ELSE tz.standard
OffsetAtLocal(tz, l) ==
    IF l >= tz.dstFrom /\ l < tz.dstTo THEN tz.daylight ELSE tz.standard

\* new Date("YYYY-MM-DD"): midnight UTC of that day
NewDate(dateStr) == 24 * dateStr

\* date.setDate(n): the local calendar day moves, the local time of day stays
SetLocalDay(tz, date, localDay) ==
    LET local == date + OffsetAtUTC(tz, date)
        moved == 24 * localDay + (local % 24)
    IN  moved - OffsetAtLocal(tz, moved)

\* date.getDate() as the ordinal of the local calendar day
LocalDay(tz, date) == (date + OffsetAtUTC(tz, date)) \div 24

\* date.toISOString().split("T")[0]: the UTC calendar day
ISODatePart(date) == date \div 24

calculatePreviousPeriodStartDate(currentDate, lookbackDays) ==
    LET currentDateObj == NewDate(currentDate)
        pastDateObj == SetLocalDay(timeZone, currentDateObj,
                                   LocalDay(timeZone, currentDateObj) - lookbackDays)
    IN  ISODatePart(pastDateObj)

\* dateTimeStr.split(" ")[0]
extractDatePart(dateTimeStr) == dateTimeStr[1]

\* String.prototype.split on `undefined` raises a TypeError.
SplitThrows(records, field) == \E i \in 1..Len(records) : records[i][field] = <<>>

InRange_EndInclusive(date, startDate, endDate) == date >= startDate /\ date <= endDate

InRange(date, startDate, endDate) == date >= startDate /\ date < endDate

filterSessionsByDateRange(sessions, startDate, endDate) ==
    SelectSeq(sessions, LAMBDA session :
        InRange(extractDatePart(session.datetimeShifted), startDate, endDate))

filterLeadsByDateRange(leads, startDate, endDate) ==
    SelectSeq(leads, LAMBDA lead :
        InRange(extractDatePart(lead.datetimeCreatedShifted), startDate, endDate))

filterContactsByDateRange(contacts, startDate, endDate) ==
    SelectSeq(contacts, LAMBDA contact :
        InRange(extractDatePart(contact.datetimeCreatedShifted), startDate, endDate))

filterTransactionsByDateRange(transactions, startDate, endDate) ==
    SelectSeq(transactions, LAMBDA tx :
        InRange(extractDatePart(tx.paymentDatetimeShifted), startDate, endDate))

filterSourceDataByDateRange(sourceData, startDate, endDate) ==
    SelectSeq(sourceData, LAMBDA sd : InRange(sd.date, startDate, endDate))

-----------------------------------------------------------------------------
(* utils/csv-loader: typed rows from the semicolon-separated files.        *)

NaN == <<0, 0>>

\* parseFloat on the numeric literals that occur in the modelled files
parseFloat(str) ==
    CASE str = "0"   -> R(0)
      [] str = "1"   -> R(1)
      [] str = "2"   -> R(2)
      [] str = "100" -> R(100)
      [] str = "1.5" -> <<3, 2>>
      [] OTHER       -> NaN

\* value.toString().replace(",", ".")
ReplaceComma(str) == IF str = "1,5" THEN "1.5" ELSE str

parseNumber(value) ==
    IF value = "" THEN R(0)
    ELSE LET parsed == parseFloat(ReplaceComma(value))
         IN  IF parsed = NaN THEN R(0) ELSE parsed

parseBoolean(value) ==
    IF value = "" THEN FALSE
    ELSE value \in {"true", "TRUE", "True"} \/ value = "1"

Files == {"Sessions", "Leads", "Contacts", "Contacts2Leads",
          "Transactions", "SourceData", "Atoms"}

\* loadCsv: a file that does not exist yields [], otherwise its rows in file
\* order; each loader below applies its transformer to every row.
loadCsv(d, file) == IF ~d[file].exists THEN <<>> ELSE d[file].rows

loadSessions(d) ==
    LET rows == loadCsv(d, "Sessions")
    IN  [i \in 1..Len(rows) |->
            LET row == rows[i]
            IN  [mcid |-> row.Mcid, userPseudoId |-> row.UserPseudoId,
                 datetimeShifted |-> row.DatetimeShifted,
                 deviceCategory |-> row.DeviceCategory]]

loadLeads(d) ==
    LET rows == loadCsv(d, "Leads")
    IN  [i \in 1..Len(rows) |->
            LET row == rows[i]
            IN  [mcId |-> row.McId, datetimeCreatedShifted |-> row.DatetimeCreatedShifted,
                 googleClientId |-> row.GoogleClientId]]

loadContacts(d) ==
    LET rows == loadCsv(d, "Contacts")
    IN  [i \in 1..Len(rows) |->
            LET row == rows[i]
            IN  [mcId |-> row.McId, datetimeCreatedShifted |-> row.DatetimeCreatedShifted]]

loadContact2Leads(d) ==
    LET rows == loadCsv(d, "Contacts2Leads")
    IN  [i \in 1..Len(rows) |->
            LET row == rows[i]
            IN  [leadId |-> row.leadId, contactId |-> row.contactId]]

loadTransactions(d) ==
    LET rows == loadCsv(d, "Transactions")
    IN  [i \in 1..Len(rows) |->
            LET row == rows[i]
            IN  [mcId |-> row.McId, paymentDatetimeShifted |-> row.PaymentDatetimeShifted,
                 paidSumOriginalCurrency |-> parseNumber(row.PaidSumOriginalCurrency),
                 ch_isFirstClientPaid |-> parseBoolean(row.ch_isFirstClientPaid)]]

loadSourceData(d) ==
    LET rows == loadCsv(d, "SourceData")
    IN  [i \in 1..Len(rows) |->
            LET row == rows[i]
            IN  [date |-> row.Date, atomId |-> row.AtomId,
                 budgetSpent |-> parseNumber(row.BudgetSpent),
                 clicks |-> parseNumber(row.Clicks)]]

loadAtoms(d) ==
    LET rows == loadCsv(d, "Atoms")
    IN  [i \in 1..Len(rows) |->
            LET row == rows[i]
            IN  [atomId |-> row.AtomId, sourceGroupName |-> row.SourceGroupName,
                 isPaidName |-> row.IsPaidName]]

loadDataSet(d) ==
    [sessions |-> loadSessions(d), leads |-> loadLeads(d),
     contacts |-> loadContacts(d), contact2Leads |-> loadContact2Leads(d),
     transactions |-> loadTransactions(d), sourceData |-> loadSourceData(d),
     atoms |-> loadAtoms(d)]

-----------------------------------------------------------------------------
(* agents/nodes: the ten node functions, each AgentState -> AgentState.    *)

\* The reply of the language-model service: a failure, or a text (its lines).
LLMFailure == [ok |-> FALSE, text |-> <<>>]
LLMText(lines) == [ok |-> TRUE, text |-> lines]

\* line.replace(/^\d+\.\s*/, "").trim()
StripNumbering(line) ==
    CASE line = "1. Spend is efficient" -> "Spend is efficient"
      [] OTHER -> line

\* split("\n"), drop blank lines, strip the numbering
InsightLines(text) ==
    LET kept == SelectSeq(text, LAMBDA line : line # "")
    IN  [i \in 1..Len(kept) |-> StripNumbering(kept[i])]

\* JavaScript truthiness of an optional string
Truthy(opt) == opt # None /\ opt[1] # <<>>

\* A loader for which a missing file is an error.
loadData_MissingFileFatal(s, d, ioError) ==
    IF ioError \/ \E f \in DOMAIN d : ~d[f].exists
    THEN [s EXCEPT !.error = Some("I/O error")]
    ELSE [s EXCEPT !.testData = Some(loadDataSet(d))]

loadData(s, d, ioError) ==
    IF ioError THEN [s EXCEPT !.error = Some("I/O error")]
    ELSE [s EXCEPT !.testData = Some(loadDataSet(d))]

\* A validator that has nothing to report on a data set without sessions.
validateData_SkipsEmpty(s) ==
    IF s.testData = None THEN [s EXCEPT !.error = Some("Test data not loaded")]
    ELSE LET testData == s.testData[1]
         IN  IF testData.sessions = <<>> THEN s
             ELSE [s EXCEPT !.dataValidation =
                      Some(checkDataValidity(testData.sessions, testData.leads,
                                             testData.contacts, testData.transactions,
                                             testData.sourceData, testData.atoms))]

\* A validator that turns its findings into an error.
validateData_FailsOnIssues(s) ==
    IF s.testData = None THEN [s EXCEPT !.error = Some("Test data not loaded")]
    ELSE LET testData == s.testData[1]
             validation == checkDataValidity(testData.sessions, testData.leads,
                                             testData.contacts, testData.transactions,
                                             testData.sourceData, testData.atoms)
         IN  IF validation.isValid THEN [s EXCEPT !.dataValidation = Some(validation)]
             ELSE [s EXCEPT !.error = Some("Data validation failed")]

validateData(s) ==
    IF s.testData = None THEN [s EXCEPT !.error = Some("Test data not loaded")]
    ELSE LET testData == s.testData[1]
         IN  [s EXCEPT !.dataValidation =
                 Some(checkDataValidity(testData.sessions, testData.leads,
                                        testData.contacts, testData.transactions,
                                        testData.sourceData, testData.atoms))]

\* The record sets analyzeMetrics hands to calculateMetricsTrend.
MetricsPeriods(s) ==
    LET testData == s.testData[1]
        pastDate == calculatePreviousPeriodStartDate(s.date, LookbackDays)
    IN  [current  |-> [sessions |-> <<>>, leads |-> <<>>, contacts |-> <<>>,
                       transactions |-> testData.transactions,
                       sourceData |-> testData.sourceData],
         previous |-> [sessions |-> <<>>, leads |-> <<>>, contacts |-> <<>>,
                       transactions |-> filterTransactionsByDateRange(
                                           testData.transactions, pastDate, s.date),
                       sourceData |-> filterSourceDataByDateRange(
                                           testData.sourceData, pastDate, s.date)]]

MetricsThrows(s) ==
    \/ s.testData = None
    \/ SplitThrows(s.testData[1].transactions, "paymentDatetimeShifted")

analyzeMetrics(s) ==
    IF s.testData = None THEN [s EXCEPT !.error = Some("Data not loaded")]
    ELSE IF MetricsThrows(s) THEN [s EXCEPT !.error = Some("TypeError")]
    ELSE LET testData == s.testData[1]
             p == MetricsPeriods(s)
             metricsAnalysis ==
                 calculateMetricsTrend(p.current.transactions, p.current.sourceData,
                                       p.previous.transactions, p.previous.sourceData)
             roasReasons ==
                 generatePossibleReasons("ROAS", metricsAnalysis.roas.current,
                                         metricsAnalysis.roas.previous, testData.sessions,
                                         testData.sourceData, testData.atoms)
             cacReasons ==
                 generatePossibleReasons("CAC", metricsAnalysis.cac.current,
                                         metricsAnalysis.cac.previous, testData.sessions,
                                         testData.sourceData, testData.atoms)
         IN  [s EXCEPT !.metricsAnalysis =
                 Some([roas |-> [current |-> metricsAnalysis.roas.current,
                                 previous |-> metricsAnalysis.roas.previous,
                                 percentageChange |-> metricsAnalysis.roas.percentageChange,
                                 isSignificant |-> metricsAnalysis.roas.isSignificant,
                                 possibleReasons |-> roasReasons],
                       cac  |-> [current |-> metricsAnalysis.cac.current,
                                 previous |-> metricsAnalysis.cac.previous,
                                 percentageChange |-> metricsAnalysis.cac.percentageChange,
                                 isSignificant |-> metricsAnalysis.cac.isSignificant,
                                 possibleReasons |-> cacReasons]])]

\* The record sets analyzeConversions hands to calculateConversionsTrend.
ConversionsPeriods(s) ==
    LET testData == s.testData[1]
        pastDate == calculatePreviousPeriodStartDate(s.date, LookbackDays)
    IN  [current  |-> [sessions |-> testData.sessions, leads |-> testData.leads,
                       contacts |-> testData.contacts,
                       transactions |-> testData.transactions, sourceData |-> <<>>],
         previous |-> [sessions |-> filterSessionsByDateRange(
                                       testData.sessions, pastDate, s.date),
                       leads |-> filterLeadsByDateRange(testData.leads, pastDate, s.date),
                       contacts |-> filterContactsByDateRange(
                                       testData.contacts, pastDate, s.date),
                       transactions |-> filterTransactionsByDateRange(
                                           testData.transactions, pastDate, s.date),
                       sourceData |-> <<>>]]

ConversionsThrows(s) ==
    \/ s.testData = None
    \/ SplitThrows(s.testData[1].sessions, "datetimeShifted")
    \/ SplitThrows(s.testData[1].leads, "datetimeCreatedShifted")
    \/ SplitThrows(s.testData[1].contacts, "datetimeCreatedShifted")
    \/ SplitThrows(s.testData[1].transactions, "paymentDatetimeShifted")

analyzeConversions(s, llm) ==
    IF s.testData = None THEN [s EXCEPT !.error = Some("Data not loaded")]
    ELSE IF ConversionsThrows(s) THEN [s EXCEPT !.error = Some("TypeError")]
    ELSE IF ~llm.ok THEN [s EXCEPT !.error = Some("language model call failed")]
    ELSE LET p == ConversionsPeriods(s)
             stages ==
                 calculateConversionsTrend(
                     p.current.sessions, p.current.leads, p.current.contacts,
                     p.current.transactions, p.previous.sessions, p.previous.leads,
                     p.previous.contacts, p.previous.transactions)
         IN  [s EXCEPT !.conversionAnalysis =
                 Some([stages |-> stages, insights |-> InsightLines(llm.text)])]

\* A stage whose current period is the analysis date alone.
ChannelsPeriods_CurrentIsToday(s) ==
    LET testData == s.testData[1]
        pastDate == calculatePreviousPeriodStartDate(s.date, LookbackDays)
    IN  [current  |-> [sessions |-> filterSessionsByDateRange(
                                       testData.sessions, s.date, s.date + 1),
                       leads |-> <<>>, contacts |-> <<>>,
                       transactions |-> <<>>, sourceData |-> <<>>],
         previous |-> [sessions |-> filterSessionsByDateRange(
                                       testData.sessions, pastDate, s.date),
                       leads |-> <<>>, contacts |-> <<>>,
                       transactions |-> <<>>, sourceData |-> <<>>]]

\* The record sets analyzeChannels hands to calculateChannelsTrend.
ChannelsPeriods(s) ==
    LET testData == s.testData[1]
        pastDate == calculatePreviousPeriodStartDate(s.date, LookbackDays)
    IN  [current  |-> [sessions |-> testData.sessions, leads |-> <<>>, contacts |-> <<>>,
                       transactions |-> <<>>, sourceData |-> <<>>],
         previous |-> [sessions |-> filterSessionsByDateRange(
                                       testData.sessions, pastDate, s.date),
                       leads |-> <<>>, contacts |-> <<>>,
                       transactions |-> <<>>, sourceData |-> <<>>]]

ChannelsThrows(s) ==
    \/ s.testData = None
    \/ SplitThrows(s.testData[1].sessions, "datetimeShifted")

analyzeChannels(s, llm) ==
    IF s.testData = None THEN [s EXCEPT !.error = Some("Data not loaded")]
    ELSE IF ChannelsThrows(s) THEN [s EXCEPT !.error = Some("TypeError")]
    ELSE IF ~llm.ok THEN [s EXCEPT !.error = Some("language model call failed")]
    ELSE LET p == ChannelsPeriods(s)
             channels == calculateChannelsTrend(p.current.sessions, p.previous.sessions,
                                                s.testData[1].atoms)
         IN  [s EXCEPT !.channelDistribution =
                 Some([channels |-> channels, insights |-> InsightLines(llm.text)])]

\* A stage that empties the loaded sessions array while reading it.
suggestDataImprovements_ConsumesSessions(s) ==
    IF s.testData = None THEN [s EXCEPT !.error = Some("Test data not loaded")]
    ELSE LET testData == s.testData[1]
         IN  [s EXCEPT !.dataQualityImprovements =
                           Some(generateDataQualityImprovements(
                                    testData.sessions, testData.leads, testData.contacts,
                                    testData.transactions, testData.sourceData,
                                    testData.atoms)),
                       !.testData = Some([testData EXCEPT !.sessions = <<>>])]

suggestDataImprovements(s) ==
    IF s.testData = None THEN [s EXCEPT !.error = Some("Test data not loaded")]
    ELSE LET testData == s.testData[1]
         IN  [s EXCEPT !.dataQualityImprovements =
                 Some(generateDataQualityImprovements(
                          testData.sessions, testData.leads, testData.contacts,
                          testData.transactions, testData.sourceData, testData.atoms))]

suggestReportingImprovements(s) ==
    IF s.testData = None THEN [s EXCEPT !.error = Some("Test data not loaded")]
    ELSE LET testData == s.testData[1]
         IN  [s EXCEPT !.reportingImprovements =
                 Some(generateReportingImprovements(
                          testData.sessions, testData.leads, testData.contacts,
                          testData.transactions, testData.sourceData, testData.atoms))]

generateSummary(s, llm) ==
    IF \/ s.dataValidation = None
       \/ s.metricsAnalysis = None
       \/ s.conversionAnalysis = None
       \/ s.channelDistribution = None
       \/ s.dataQualityImprovements = None
       \/ s.reportingImprovements = None
    THEN [s EXCEPT !.error = Some("Missing required analysis data")]
    ELSE IF ~llm.ok THEN [s EXCEPT !.error = Some("language model call failed")]
    ELSE [s EXCEPT !.summary = Some(llm.text)]

completeBrief_SwallowsError(s) ==
    IF \/ s.date = 0
       \/ s.dataValidation = None
       \/ s.metricsAnalysis = None
       \/ s.conversionAnalysis = None
       \/ s.channelDistribution = None
       \/ s.dataQualityImprovements = None
       \/ s.reportingImprovements = None
       \/ ~Truthy(s.summary)
    THEN s
    ELSE [s EXCEPT !.dailyBrief =
             Some([date |-> s.date,
                   dataValidation |-> s.dataValidation[1],
                   metricsAnalysis |-> s.metricsAnalysis[1],
                   conversionAnalysis |-> s.conversionAnalysis[1],
                   channelDistribution |-> s.channelDistribution[1],
                   dataQualityImprovements |-> s.dataQualityImprovements[1],
                   reportingImprovements |-> s.reportingImprovements[1],
                   summary |-> s.summary[1]])]

completeBrief(s) ==
    IF \/ s.date = 0
       \/ s.dataValidation = None
       \/ s.metricsAnalysis = None
       \/ s.conversionAnalysis = None
       \/ s.channelDistribution = None
       \/ s.dataQualityImprovements = None
       \/ s.reportingImprovements = None
       \/ ~Truthy(s.summary)
    THEN [s EXCEPT !.error = Some("Missing required data for daily brief")]
    ELSE [s EXCEPT !.dailyBrief =
             Some([date |-> s.date,
                   dataValidation |-> s.dataValidation[1],
                   metricsAnalysis |-> s.metricsAnalysis[1],
                   conversionAnalysis |-> s.conversionAnalysis[1],
                   channelDistribution |-> s.channelDistribution[1],
                   dataQualityImprovements |-> s.dataQualityImprovements[1],
                   reportingImprovements |-> s.reportingImprovements[1],
                   summary |-> s.summary[1]])]

\* A handler that recovers by clearing the error.
handleError_ClearsError(s) == [s EXCEPT !.error = None]

handleError(s) == s

-----------------------------------------------------------------------------
(* agents/agent: the compiled graph.                                       *)

START == "__start__"
END == "__end__"

Chain == << "load_data", "validate_data", "analyze_metrics", "analyze_conversions",
            "analyze_channels", "suggest_data_improvements",
            "suggest_reporting_improvements", "generate_summary", "complete_brief" >>

HANDLE_ERROR == "handle_error"

checkForErrors_Never(s) == "continue"

checkForErrors(s) == IF s.error # None THEN "error" ELSE "continue"

\* addConditionalEdges(node, checkForErrors, {error: ..., continue: ...})
ConditionalEdge(s, onError, onContinue) ==
    IF checkForErrors(s) = "error" THEN onError ELSE onContinue

Edges_SkipsValidation(node, s) ==
    CASE node = START -> "load_data"
      [] node = "load_data" -> ConditionalEdge(s, HANDLE_ERROR, "analyze_metrics")
      [] node = "validate_data" -> ConditionalEdge(s, HANDLE_ERROR, "analyze_metrics")
      [] node = "analyze_metrics" -> ConditionalEdge(s, HANDLE_ERROR, "analyze_conversions")
      [] node = "analyze_conversions" -> ConditionalEdge(s, HANDLE_ERROR, "analyze_channels")
      [] node = "analyze_channels" ->
             ConditionalEdge(s, HANDLE_ERROR, "suggest_data_improvements")
      [] node = "suggest_data_improvements" ->
             ConditionalEdge(s, HANDLE_ERROR, "suggest_reporting_improvements")
      [] node = "suggest_reporting_improvements" ->
             ConditionalEdge(s, HANDLE_ERROR, "generate_summary")
      [] node = "generate_summary" -> ConditionalEdge(s, HANDLE_ERROR, "complete_brief")
      [] node = "complete_brief" -> END
      [] node = HANDLE_ERROR -> END

\* A graph that starts over once the error handler has run.
Edges_RetriesAfterError(node, s) ==
    CASE node = START -> "load_data"
      [] node = "load_data" -> ConditionalEdge(s, HANDLE_ERROR, "validate_data")
      [] node = "validate_data" -> ConditionalEdge(s, HANDLE_ERROR, "analyze_metrics")
      [] node = "analyze_metrics" -> ConditionalEdge(s, HANDLE_ERROR, "analyze_conversions")
      [] node = "analyze_conversions" -> ConditionalEdge(s, HANDLE_ERROR, "analyze_channels")
      [] node = "analyze_channels" ->
             ConditionalEdge(s, HANDLE_ERROR, "suggest_data_improvements")
      [] node = "suggest_data_improvements" ->
             ConditionalEdge(s, HANDLE_ERROR, "suggest_reporting_improvements")
      [] node = "suggest_reporting_improvements" ->
             ConditionalEdge(s, HANDLE_ERROR, "generate_summary")
      [] node = "generate_summary" -> ConditionalEdge(s, HANDLE_ERROR, "complete_brief")
      [] node = "complete_brief" -> END
      [] node = HANDLE_ERROR -> "load_data"

\* The node that runs after `node` has returned the state `s`.
Edges(node, s) ==
    CASE node = START -> "load_data"
      [] node = "load_data" -> ConditionalEdge(s, HANDLE_ERROR, "validate_data")
      [] node = "validate_data" -> ConditionalEdge(s, HANDLE_ERROR, "analyze_metrics")
      [] node = "analyze_metrics" -> ConditionalEdge(s, HANDLE_ERROR, "analyze_conversions")
      [] node = "analyze_conversions" -> ConditionalEdge(s, HANDLE_ERROR, "analyze_channels")
      [] node = "analyze_channels" ->
             ConditionalEdge(s, HANDLE_ERROR, "suggest_data_improvements")
      [] node = "suggest_data_improvements" ->
             ConditionalEdge(s, HANDLE_ERROR, "suggest_reporting_improvements")
      [] node = "suggest_reporting_improvements" ->
             ConditionalEdge(s, HANDLE_ERROR, "generate_summary")
      [] node = "generate_summary" -> ConditionalEdge(s, HANDLE_ERROR, "complete_brief")
      [] node = "complete_brief" -> END
      [] node = HANDLE_ERROR -> END

-----------------------------------------------------------------------------
(* The environment of one run: the input directory and the model service.  *)

\* The most rows the input directory holds in total.
MaxRecords == 3

\* getDateFromArgs' default, "2024-03-15", as a day ordinal.
DefaultDate == 75

Time == "10:00:00"
RowDates == {DefaultDate - LookbackDays, DefaultDate}

SessionRows ==
    [Mcid : {"", "c1"}, UserPseudoId : {"u1"},
     DatetimeShifted : {<<d, Time>> : d \in RowDates}, DeviceCategory : {"desktop"}]
LeadRows ==
    [McId : {"c1"}, DatetimeCreatedShifted : {<<d, Time>> : d \in RowDates},
     GoogleClientId : {"g1"}]
ContactRows ==
    [McId : {"c1"}, DatetimeCreatedShifted : {<<d, Time>> : d \in RowDates}]
TransactionRows ==
    [McId : {"c1"}, PaymentDatetimeShifted : {<<d, Time>> : d \in RowDates} \cup {<<>>},
     PaidSumOriginalCurrency : {"100"}, ch_isFirstClientPaid : {"true"}]
SourceDataRows ==
    [Date : RowDates, AtomId : {"a1"}, BudgetSpent : {"1"}, Clicks : {"1"}]
AtomRows ==
    [AtomId : {"a1"}, SourceGroupName : {"g1", "g2"}, IsPaidName : {"paid"}]

RowsOf(file) ==
    CASE file = "Sessions" -> SessionRows
      [] file = "Leads" -> LeadRows
      [] file = "Contacts" -> ContactRows
      [] file = "Contacts2Leads" -> {}
      [] file = "Transactions" -> TransactionRows
      [] file = "SourceData" -> SourceDataRows
      [] file = "Atoms" -> AtomRows

RECURSIVE TotalRows(_, _)
TotalRows(d, files) ==
    IF files = {} THEN 0
    ELSE LET f == CHOOSE x \in files : TRUE
         IN  Len(d[f].rows) + TotalRows(d, files \ {f})

LLMReplies == {LLMFailure, LLMText(<<>>), LLMText(<<"1. Spend is efficient">>)}

AnalysisStages == {"analyze_metrics", "analyze_conversions", "analyze_channels"}

\* The command-line tokens the arguments are drawn from.
ArgTokens ==
    {"--date", "-d", "--date=2024-03-15", "--date=15.03.2024", "--date=",
     "--date=2024-03-15=x", "2024-03-15", "2024-13-45", "15.03.2024", ""}

\* str.startsWith("--date=")
StartsWithDateEquals(str) ==
    str \in {"--date=2024-03-15", "--date=15.03.2024", "--date=", "--date=2024-03-15=x"}

\* str.split("=")[1]
SplitEquals1(str) ==
    CASE str = "--date=2024-03-15" -> "2024-03-15"
      [] str = "--date=15.03.2024" -> "15.03.2024"
      [] str = "--date=" -> ""
      [] str = "--date=2024-03-15=x" -> "2024-03-15"

\* /^\d{4}-\d{2}-\d{2}$/.test(str)
dateRegexTest(str) == str \in {"2024-03-15", "2024-13-45"}

DefaultDateString == "2024-03-15"

\* getDateFromArgs: the date to analyse, or process.exit(1)
getDateFromArgs(args) ==
    LET isDateOption(i) ==
            args[i] = "--date" \/ args[i] = "-d" \/ StartsWithDateEquals(args[i])
        found == {i \in 1..Len(args) : isDateOption(i)}
        first == CHOOSE i \in found : \A j \in found : i <= j
        dateArg ==
            IF found = {} THEN None
            ELSE IF args[first] = "--date" \/ args[first] = "-d"
            THEN (IF first + 1 <= Len(args) THEN Some(args[first + 1]) ELSE None)
            ELSE Some(SplitEquals1(args[first]))
    IN  IF dateArg # None /\ dateArg[1] # ""
        THEN IF ~dateRegexTest(dateArg[1])
             THEN [exit |-> TRUE, date |-> ""]
             ELSE [exit |-> FALSE, date |-> dateArg[1]]
        ELSE [exit |-> FALSE, date |-> DefaultDateString]

\* The day ordinal of the date strings the pipeline is run with.
DayOrdinal(dateStr) == CASE dateStr = "2024-03-15" -> DefaultDate

\* path.join(config.data.outputDir, `daily-brief-${initialState.date}.json`)
BriefPath(date) == <<"output", "daily-brief-", date, ".json">>

\* A main that does not look at result.error.
mainAfterInvoke_IgnoresError(result, writeFails) ==
    IF result.dailyBrief # None
    THEN IF writeFails THEN [exitCode |-> 1, written |-> {}]
         ELSE [exitCode |-> 0,
               written |-> {[path |-> BriefPath(result.date),
                             content |-> result.dailyBrief[1]]}]
    ELSE [exitCode |-> 0, written |-> {}]

\* main after graph.invoke returned `result`: the exit code and the files written
mainAfterInvoke(result, writeFails) ==
    IF result.error # None THEN [exitCode |-> 1, written |-> {}]
    ELSE IF result.dailyBrief # None
    THEN IF writeFails THEN [exitCode |-> 1, written |-> {}]
         ELSE [exitCode |-> 0,
               written |-> {[path |-> BriefPath(result.date),
                             content |-> result.dailyBrief[1]]}]
    ELSE [exitCode |-> 0, written |-> {}]

\* main: the initial state handed to graph.invoke
InitialState ==
    [date |-> DefaultDate, dataPath |-> "input", dataPrefix |-> "ai.test",
     testData |-> None, dataValidation |-> None, metricsAnalysis |-> None,
     conversionAnalysis |-> None, channelDistribution |-> None,
     dataQualityImprovements |-> None, reportingImprovements |-> None,
     summary |-> None, dailyBrief |-> None, error |-> None]

NoInput == [family |-> "none"]
NoOutput == <<>>

\* The time zones and command lines the pipeline is run under.
PipelineTimeZones == {UTC, Berlin}
PipelineArgs == {<<>>, <<"--date=15.03.2024">>}

Init ==
    /\ disk = [f \in Files |-> [exists |-> FALSE, rows |-> <<>>]]
    /\ next = START
    /\ state = InitialState
    /\ trace = <<>>
    /\ periods = [st \in AnalysisStages |-> None]
    /\ timeZone \in PipelineTimeZones
    /\ argv \in PipelineArgs
    /\ exitCode = None
    /\ written = {}
    /\ llmCalls = <<>>
    /\ input = NoInput
    /\ output = NoOutput

\* Before the run: a row is written to one of the input files.
PlaceRow ==
    /\ next = START /\ exitCode = None
    /\ TotalRows(disk, Files) < MaxRecords
    /\ \E file \in Files : \E row \in RowsOf(file) :
           disk' = [disk EXCEPT ![file] = [exists |-> TRUE, rows |-> Append(@.rows, row)]]
    /\ UNCHANGED <<next, state, trace, periods, timeZone, argv, exitCode, written,
                   llmCalls, input, output>>

\* main up to graph.invoke(initialState): the arguments are parsed, then the
\* START edge is taken, unless getDateFromArgs ended the process.
Invoke ==
    /\ next = START /\ exitCode = None
    /\ LET parsed == getDateFromArgs(argv)
       IN  IF parsed.exit
           THEN /\ exitCode' = Some(1)
                /\ UNCHANGED <<next, state>>
           ELSE /\ state' = [InitialState EXCEPT !.date = DayOrdinal(parsed.date)]
                /\ next' = Edges(START, state')
                /\ UNCHANGED exitCode
    /\ UNCHANGED <<disk, trace, periods, timeZone, argv, written, llmCalls, input, output>>

\* main after graph.invoke returned: the brief is saved and the process ends.
SaveBrief ==
    /\ next = END /\ exitCode = None
    /\ \E writeFails \in BOOLEAN :
           LET done == mainAfterInvoke(state, writeFails)
           IN  /\ exitCode' = Some(done.exitCode)
               /\ written' = done.written
    /\ UNCHANGED <<disk, next, state, trace, periods, timeZone, argv, llmCalls,
                   input, output>>

\* One node runs and the graph routes on the state it returned.
RunNode(node, returned) ==
    /\ next = node
    /\ state' = returned
    /\ next' = Edges(node, returned)
    /\ trace' = Append(trace, node)
    /\ UNCHANGED <<disk, timeZone, argv, exitCode, written, input, output>>

\* A call that is made a second time when it failed.
CallModel_RetriesOnce(node, llm) ==
    IF llm.ok THEN Append(llmCalls, [stage |-> node, ok |-> TRUE])
    ELSE llmCalls \o <<[stage |-> node, ok |-> FALSE], [stage |-> node, ok |-> FALSE]>>

\* One chain.invoke({}) of the stage `node`, answered by `llm`.
CallModel(node, llm) == Append(llmCalls, [stage |-> node, ok |-> llm.ok])

\* generateSummary reaches its chain.invoke only with every analysis present.
SummaryInputsPresent(s) ==
    /\ s.dataValidation # None
    /\ s.metricsAnalysis # None
    /\ s.conversionAnalysis # None
    /\ s.channelDistribution # None
    /\ s.dataQualityImprovements # None
    /\ s.reportingImprovements # None

LoadData ==
    /\ \E ioError \in BOOLEAN :
           /\ ioError => \E f \in Files : disk[f].exists
           /\ RunNode("load_data", loadData(state, disk, ioError))
    /\ UNCHANGED <<periods, llmCalls>>

ValidateData ==
    /\ RunNode("validate_data", validateData(state))
    /\ UNCHANGED <<periods, llmCalls>>

AnalyzeMetrics ==
    /\ RunNode("analyze_metrics", analyzeMetrics(state))
    /\ periods' = IF MetricsThrows(state) THEN periods
                  ELSE [periods EXCEPT !["analyze_metrics"] = Some(MetricsPeriods(state))]
    /\ UNCHANGED llmCalls

AnalyzeConversions ==
    /\ \E llm \in LLMReplies :
           /\ RunNode("analyze_conversions", analyzeConversions(state, llm))
           /\ llmCalls' = IF ConversionsThrows(state) THEN llmCalls
                          ELSE CallModel("analyze_conversions", llm)
    /\ periods' = IF ConversionsThrows(state) THEN periods
                  ELSE [periods EXCEPT !["analyze_conversions"] =
                            Some(ConversionsPeriods(state))]

AnalyzeChannels ==
    /\ \E llm \in LLMReplies :
           /\ RunNode("analyze_channels", analyzeChannels(state, llm))
           /\ llmCalls' = IF ChannelsThrows(state) THEN llmCalls
                          ELSE CallModel("analyze_channels", llm)
    /\ periods' = IF ChannelsThrows(state) THEN periods
                  ELSE [periods EXCEPT !["analyze_channels"] = Some(ChannelsPeriods(state))]

SuggestDataImprovements ==
    /\ RunNode("suggest_data_improvements", suggestDataImprovements(state))
    /\ UNCHANGED <<periods, llmCalls>>

SuggestReportingImprovements ==
    /\ RunNode("suggest_reporting_improvements", suggestReportingImprovements(state))
    /\ UNCHANGED <<periods, llmCalls>>

GenerateSummary ==
    /\ \E llm \in LLMReplies :
           /\ RunNode("generate_summary", generateSummary(state, llm))
           /\ llmCalls' = IF SummaryInputsPresent(state)
                          THEN CallModel("generate_summary", llm)
                          ELSE llmCalls
    /\ UNCHANGED periods

CompleteBrief ==
    /\ RunNode("complete_brief", completeBrief(state))
    /\ UNCHANGED <<periods, llmCalls>>

HandleError ==
    /\ RunNode(HANDLE_ERROR, handleError(state))
    /\ UNCHANGED <<periods, llmCalls>>

Next ==
    \/ PlaceRow
    \/ Invoke
    \/ LoadData
    \/ ValidateData
    \/ AnalyzeMetrics
    \/ AnalyzeConversions
    \/ AnalyzeChannels
    \/ SuggestDataImprovements
    \/ SuggestReportingImprovements
    \/ GenerateSummary
    \/ CompleteBrief
    \/ HandleError
    \/ SaveBrief

Spec == Init /\ [][Next]_vars

\* The nodes of the graph: graph.invoke runs the node the last edge led to.
RunNodes ==
    \/ LoadData
    \/ ValidateData
    \/ AnalyzeMetrics
    \/ AnalyzeConversions
    \/ AnalyzeChannels
    \/ SuggestDataImprovements
    \/ SuggestReportingImprovements
    \/ GenerateSummary
    \/ CompleteBrief
    \/ HandleError

\* The data directory before a run: empty, or holding one input file that
\* has a header only or a single row.
LiveDisks ==
    LET absent == [f \in Files |-> [exists |-> FALSE, rows |-> <<>>]]
    IN  {absent} \cup
        UNION {{[absent EXCEPT ![file] = [exists |-> TRUE, rows |-> rows]] :
                   rows \in {<<>>} \cup {<<row>> : row \in RowsOf(file)}} : file \in Files}

InitLive ==
    /\ disk \in LiveDisks
    /\ next = START
    /\ state = InitialState
    /\ trace = <<>>
    /\ periods = [st \in AnalysisStages |-> None]
    /\ timeZone \in PipelineTimeZones
    /\ argv \in PipelineArgs
    /\ exitCode = None
    /\ written = {}
    /\ llmCalls = <<>>
    /\ input = NoInput
    /\ output = NoOutput

NextLive ==
    \/ Invoke
    \/ LoadData
    \/ ValidateData
    \/ AnalyzeMetrics
    \/ AnalyzeConversions
    \/ AnalyzeChannels
    \/ SuggestDataImprovements
    \/ SuggestReportingImprovements
    \/ GenerateSummary
    \/ CompleteBrief
    \/ HandleError
    \/ SaveBrief

\* The pipeline when every file read and every model call returns or fails:
\* main reaches graph.invoke, and the node that is due always runs.
SpecLive == InitLive /\ [][NextLive]_vars /\ WF_vars(Invoke) /\ WF_vars(RunNodes)

-----------------------------------------------------------------------------
(* Properties of the pipeline (specification Spec).                        *)

Last(t) == t[Len(t)]

Terminated == next = END

\* C1: whenever a stage of the chain returns a state that carries an error,
\* the node executed next is HANDLE_ERROR (never the successor, never the end).
C1_ErrorAlwaysRoutedToHandler ==
    [][ (next \in Range(Chain) /\ trace' = Append(trace, next) /\ state'.error # None)
            => next' = HANDLE_ERROR ]_vars

\* C2: fail-fast: from a state that carries an error, the only node that can
\* still execute is HANDLE_ERROR, so no later stage of the chain runs.
C2_FailFast ==
    [][ (state.error # None /\ trace' # trace) => Last(trace') = HANDLE_ERROR ]_vars

\* A run that failed in ANALYZE_CONVERSIONS and ended without running any later stage.
C2_Witness ==
    /\ Terminated
    /\ state.error # None
    /\ trace = SubSeq(Chain, 1, 4) \o <<HANDLE_ERROR>>

BriefFields ==
    {"date", "dataValidation", "metricsAnalysis", "conversionAnalysis",
     "channelDistribution", "dataQualityImprovements", "reportingImprovements", "summary"}

\* dailyBrief holds all eight sub-results, each the populated slice of the state.
BriefComplete(s) ==
    /\ s.dailyBrief # None
    /\ DOMAIN s.dailyBrief[1] = BriefFields
    /\ s.dailyBrief[1].date = s.date /\ s.date # 0
    /\ Some(s.dailyBrief[1].dataValidation) = s.dataValidation
    /\ Some(s.dailyBrief[1].metricsAnalysis) = s.metricsAnalysis
    /\ Some(s.dailyBrief[1].conversionAnalysis) = s.conversionAnalysis
    /\ Some(s.dailyBrief[1].channelDistribution) = s.channelDistribution
    /\ Some(s.dailyBrief[1].dataQualityImprovements) = s.dataQualityImprovements
    /\ Some(s.dailyBrief[1].reportingImprovements) = s.reportingImprovements
    /\ Some(s.dailyBrief[1].summary) = s.summary /\ s.dailyBrief[1].summary # <<>>

\* C3: in every terminal state either dailyBrief is populated with all eight
\* sub-results (with a non-empty summary text) or the error field is populated.
C3_BriefOrError == Terminated => (BriefComplete(state) \/ state.error # None)

\* A run that ended with the complete brief and no error.
C3_Witness == Terminated /\ BriefComplete(state) /\ state.error = None

\* The executed nodes without a closing HANDLE_ERROR.
StagesRun ==
    IF trace # <<>> /\ Last(trace) = HANDLE_ERROR
    THEN SubSeq(trace, 1, Len(trace) - 1)
    ELSE trace

\* C4: the executed stages are a prefix of the chain in chain order, optionally
\* followed by HANDLE_ERROR; no node runs twice; HANDLE_ERROR runs only when
\* an error was reported.
C4_ChainPrefixNoRetry ==
    /\ Len(StagesRun) <= Len(Chain)
    /\ \A i \in 1..Len(StagesRun) : StagesRun[i] = Chain[i]
    /\ \A i, j \in 1..Len(trace) : trace[i] = trace[j] => i = j
    /\ HANDLE_ERROR \in Range(trace) => state.error # None

\* A run that executed the whole chain once, in order, without HANDLE_ERROR.
C4_Witness == Terminated /\ trace = Chain /\ state.error = None

Collections == {"sessions", "leads", "contacts", "transactions", "sourceData"}

\* The date a record of collection `coll` is filtered by.
DateOf(coll, r) ==
    CASE coll = "sessions" -> extractDatePart(r.datetimeShifted)
      [] coll \in {"leads", "contacts"} -> extractDatePart(r.datetimeCreatedShifted)
      [] coll = "transactions" -> extractDatePart(r.paymentDatetimeShifted)
      [] coll = "sourceData" -> r.date

\* C7: in the three analysis stages the current record set lies in the
\* trailing lookback window of the analysis date, the previous record set in
\* the window of the same length just before it, and the two are disjoint.
C7_PeriodsAreDisjointWindows ==
    \A st \in AnalysisStages :
        periods[st] # None =>
            LET p == periods[st][1]
                windowStart == state.date - LookbackDays
                beforeStart == state.date - 2 * LookbackDays
            IN  \A coll \in Collections :
                    /\ Range(p.current[coll]) \cap Range(p.previous[coll]) = {}
                    /\ \A r \in Range(p.current[coll]) :
                           DateOf(coll, r) >= windowStart /\ DateOf(coll, r) <= state.date
                    /\ \A r \in Range(p.previous[coll]) :
                           DateOf(coll, r) >= beforeStart /\ DateOf(coll, r) <= windowStart

\* The step taken is the execution of `node`.
Ran(node) == next = node /\ trace' = Append(trace, node)

\* C16: VALIDATE_DATA returns a state without error whatever it found and
\* the run continues to ANALYZE_METRICS; its findings are never altered
\* afterwards, and the brief of a successful run carries them unchanged.
C16_AdvisoryFindings ==
    [][ /\ Ran("validate_data") =>
               /\ state'.error = None
               /\ state'.dataValidation # None
               /\ next' = "analyze_metrics"
        /\ state.dataValidation # None => state'.dataValidation = state.dataValidation
        /\ state'.dailyBrief # None =>
               state'.dailyBrief[1].dataValidation = state'.dataValidation[1]
      ]_vars

\* A successful run whose brief reports the lead-coverage gap found in a
\* data set with a lead, a session without clientId and four empty collections.
C16_Witness ==
    /\ Terminated /\ state.error = None /\ state.dailyBrief # None
    /\ \E i \in 1..Len(state.dailyBrief[1].dataValidation.issues) :
           state.dailyBrief[1].dataValidation.issues[i].msg
               = "% of leads have no corresponding session data"
    /\ Len(state.dailyBrief[1].dataValidation.suggestions) = 2
    /\ \E i \in 1..Len(state.testData[1].sessions) : state.testData[1].sessions[i].mcid = ""

\* The collection of the loaded data set each input file fills.
CollectionOfFile ==
    [Sessions |-> "sessions", Leads |-> "leads", Contacts |-> "contacts",
     Contacts2Leads |-> "contact2Leads", Transactions |-> "transactions",
     SourceData |-> "sourceData", Atoms |-> "atoms"]

\* C17: LOAD_DATA returns an error only when an I/O error was thrown while
\* reading a file that exists; otherwise, whichever input files are missing,
\* it returns no error and a testData whose collection is empty for every
\* missing file and has one record per row of every file present, and the
\* run proceeds to VALIDATE_DATA.
C17_MissingFileIsEmpty ==
    [][ Ran("load_data") =>
            /\ (\A f \in Files : ~disk[f].exists) => state'.error = None
            /\ state'.error # None =>
                   /\ state'.error = Some("I/O error")
                   /\ state'.testData = None
                   /\ next' = HANDLE_ERROR
            /\ state'.error = None =>
                   /\ state'.testData # None
                   /\ \A f \in Files :
                          Len(state'.testData[1][CollectionOfFile[f]]) =
                              IF disk[f].exists THEN Len(disk[f].rows) ELSE 0
                   /\ next' = "validate_data"
      ]_vars

\* LOAD_DATA ran with the sessions file present and the six others missing.
C17_Witness ==
    /\ trace = <<"load_data">> /\ next = "validate_data"
    /\ state.error = None /\ state.testData # None
    /\ disk["Sessions"].exists /\ \A f \in Files \ {"Sessions"} : ~disk[f].exists
    /\ Len(state.testData[1].sessions) = Len(disk["Sessions"].rows)
    /\ state.testData[1].leads = <<>> /\ state.testData[1].atoms = <<>>

\* The run has ended and the process has exited.
Exited == Terminated /\ exitCode # None

LLMStages == <<"analyze_conversions", "analyze_channels", "generate_summary">>

\* The position of a stage among the three stages that call the model.
LLMStageIndex(stage) == CHOOSE i \in 1..Len(LLMStages) : LLMStages[i] = stage

\* The number of executions of `node` so far.
TimesRun(node) == Cardinality({i \in 1..Len(trace) : trace[i] = node})

\* C20: the language-model service is called only by ANALYZE_CONVERSIONS,
\* ANALYZE_CHANNELS and GENERATE_SUMMARY, by a stage that has run, at most
\* once per stage and in that order; a run that ended with a brief made
\* exactly the three calls; a failed call is the last call, its stage ran
\* once, and the state carries an error from then on.
C20_ModelCalls ==
    /\ \A i \in 1..Len(llmCalls) :
           /\ llmCalls[i].stage \in Range(LLMStages)
           /\ llmCalls[i].stage \in Range(trace)
           /\ \A j \in 1..Len(llmCalls) :
                  i < j => LLMStageIndex(llmCalls[i].stage) < LLMStageIndex(llmCalls[j].stage)
           /\ ~llmCalls[i].ok =>
                  /\ i = Len(llmCalls)
                  /\ TimesRun(llmCalls[i].stage) = 1
                  /\ state.error # None
    /\ (Terminated /\ state.error = None /\ state.dailyBrief # None) =>
           /\ [i \in 1..Len(llmCalls) |-> llmCalls[i].stage] = LLMStages
           /\ \A i \in 1..Len(llmCalls) : llmCalls[i].ok

\* A run in which the first two calls succeeded and the summary call failed.
C20_Witness ==
    /\ Terminated /\ state.error # None
    /\ Len(llmCalls) = 3
    /\ llmCalls[1].ok /\ llmCalls[2].ok /\ ~llmCalls[3].ok
    /\ llmCalls[3].stage = "generate_summary"

\* C24: HANDLE_ERROR returns the state it received, field for field, with
\* the error populated and dailyBrief unpopulated; and no step of a run
\* clears or replaces an error once it is populated.
C24_NoRecovery ==
    [][ /\ Ran(HANDLE_ERROR) =>
               /\ state' = state
               /\ state'.error # None
               /\ state'.dailyBrief = None
        /\ state.error # None => state'.error = state.error
      ]_vars

\* A run that ended through HANDLE_ERROR still carries its error and no brief.
C24_Witness ==
    /\ Terminated /\ Last(trace) = HANDLE_ERROR
    /\ state.error # None /\ state.dailyBrief = None

\* The slice of the accumulated state each stage after LOAD_DATA fills.
SliceOf ==
    [validate_data |-> "dataValidation", analyze_metrics |-> "metricsAnalysis",
     analyze_conversions |-> "conversionAnalysis",
     analyze_channels |-> "channelDistribution",
     suggest_data_improvements |-> "dataQualityImprovements",
     suggest_reporting_improvements |-> "reportingImprovements",
     generate_summary |-> "summary", complete_brief |-> "dailyBrief"]

\* C25: a stage after LOAD_DATA changes at most its own slice and the
\* error field: date, dataPath, the loaded data set with every record
\* collection, and the slices of the other stages are the same before and
\* after it.
C25_StageFrame ==
    [][ \A node \in DOMAIN SliceOf :
            Ran(node) =>
                \A field \in DOMAIN state \ {SliceOf[node], "error"} :
                    state'[field] = state[field]
      ]_vars

\* Every stage has run over a loaded data set with records, each adding its
\* slice, and the data set is still the one LOAD_DATA returned.
C25_Witness ==
    /\ Terminated /\ trace = Chain /\ state.dailyBrief # None
    /\ state.testData = Some(loadDataSet(disk))
    /\ state.testData[1].sessions # <<>> /\ state.testData[1].transactions # <<>>
    /\ \A node \in DOMAIN SliceOf : state[SliceOf[node]] # None

\* C26: when LOAD_DATA through GENERATE_SUMMARY have all returned without
\* an error, so that COMPLETE_BRIEF has run, the state carries the brief and
\* no error, whatever text the language model returned for the summary.
C26_CompleteBriefSucceeds ==
    (Len(trace) = Len(Chain) /\ Last(trace) = "complete_brief") =>
        /\ state.error = None
        /\ state.dailyBrief # None

\* The result slices in the order their stages run.
SliceOrder ==
    << "testData", "dataValidation", "metricsAnalysis", "conversionAnalysis",
       "channelDistribution", "dataQualityImprovements", "reportingImprovements",
       "summary" >>

\* C27: a populated slice implies every slice of an earlier stage is
\* populated (summary => reportingImprovements => ... => dataValidation =>
\* testData), and a populated dailyBrief implies all eight populated and no
\* error.
C27_SlicesFillInOrder ==
    /\ \A i \in 1..Len(SliceOrder) :
           state[SliceOrder[i]] # None =>
               \A j \in 1..i : state[SliceOrder[j]] # None
    /\ state.dailyBrief # None =>
           /\ \A i \in 1..Len(SliceOrder) : state[SliceOrder[i]] # None
           /\ state.error = None

\* A run stopped by an error in ANALYZE_CHANNELS: the slices up to
\* conversionAnalysis are populated, the later ones are not.
C27_Witness ==
    /\ Terminated /\ state.error # None
    /\ state.conversionAnalysis # None /\ state.metricsAnalysis # None
    /\ state.dataValidation # None /\ state.testData # None
    /\ state.channelDistribution = None /\ state.summary = None

Nodes == Range(Chain) \cup {HANDLE_ERROR}

\* C30: every run of the graph reaches END, after at most 10 node
\* executions, the last of them COMPLETE_BRIEF or HANDLE_ERROR.
C30_Termination ==
    /\ (next # START) ~> Terminated
    /\ [](Len(trace) <= Cardinality(Nodes))
    /\ [](Terminated => Last(trace) \in {"complete_brief", HANDLE_ERROR})

\* A run that ended after all nine stages, and one that ended in the handler.
C30_Witness ==
    /\ Terminated
    /\ Len(trace) = Len(Chain)
    /\ Last(trace) = HANDLE_ERROR
    /\ trace[Len(trace) - 1] = "generate_summary"

-----------------------------------------------------------------------------
(* The metric calculators applied to arbitrary record sets                 *)
(* (specification SpecAnalysis).  The records carry the fields the         *)
(* calculators read; every amount is a whole number.                       *)

\* The longest transactions / sourceData array handed to calculateROAS and calculateCAC.
MaxCalcRecords == 2

\* The longest array of each collection handed to calculateConversionRates.
MaxFunnelRecords == 2

CalcTransactions ==
    [mcId : {"c1", "c2"}, paidSumOriginalCurrency : {R(0), R(100)},
     ch_isFirstClientPaid : BOOLEAN]
CalcSourceData == [budgetSpent : {R(0), R(1), R(3)}]

FunnelSessions ==
    {[mcid |-> "", userPseudoId |-> "u1"], [mcid |-> "", userPseudoId |-> "u2"],
     [mcid |-> "c1", userPseudoId |-> "u1"], [mcid |-> "c2", userPseudoId |-> "u1"]}
FunnelLeads == [mcId : {"c1", "c2"}]
FunnelContacts == [mcId : {"c1"}]
FunnelTransactions ==
    [mcId : {"c1"}, paidSumOriginalCurrency : {R(100)}, ch_isFirstClientPaid : BOOLEAN]

\* The longest sessions / atoms array handed to analyzeChannelDistribution.
MaxChannelRecords == 2

ChannelSessions ==
    {[mcid |-> "", userPseudoId |-> "u1"], [mcid |-> "c1", userPseudoId |-> "u1"]}
ChannelAtoms == [atomId : {"a1", "a2"}, sourceGroupName : {"g1", "g2"}, isPaidName : {"paid"}]

\* The longest array of each collection handed to checkDataValidity.
MaxValidityRecords == 1

\* Sessions with and without a clientId; one pseudo id coincides with a clientId.
ValiditySessions ==
    {[mcid |-> "", userPseudoId |-> "u1"], [mcid |-> "", userPseudoId |-> "c1"],
     [mcid |-> "c1", userPseudoId |-> "u1"]}
ValidityLeads == [mcId : {"c1", "c2"}]
ValidityContacts == [mcId : {"c1"}]
ValidityTransactions == [mcId : {"c1", "c2"}]
ValiditySourceData == [atomId : {"a1"}]
ValidityAtoms == [atomId : {"a1"}]

\* The pipeline is not running.
PipelineIdle ==
    /\ disk = [f \in Files |-> [exists |-> FALSE, rows |-> <<>>]]
    /\ next = START
    /\ state = InitialState
    /\ trace = <<>>
    /\ periods = [st \in AnalysisStages |-> None]
    /\ exitCode = None
    /\ written = {}
    /\ llmCalls = <<>>

pipelineVars == <<disk, next, state, trace, periods, exitCode, written, llmCalls>>

Returned(op, value) == [op |-> op, value |-> value]

InitAnalysis ==
    /\ PipelineIdle
    /\ timeZone = UTC /\ argv = <<>>
    /\ output = NoOutput
    /\ \/ input \in [family : {"metrics"},
                     transactions : SeqsUpTo(CalcTransactions, MaxCalcRecords),
                     sourceData : SeqsUpTo(CalcSourceData, MaxCalcRecords)]
       \/ input \in [family : {"funnel"},
                     sessions : SeqsUpTo(FunnelSessions, MaxFunnelRecords),
                     leads : SeqsUpTo(FunnelLeads, MaxFunnelRecords),
                     contacts : SeqsUpTo(FunnelContacts, MaxFunnelRecords),
                     transactions : SeqsUpTo(FunnelTransactions, MaxFunnelRecords)]
       \/ input \in [family : {"channels"},
                     sessions : SeqsUpTo(ChannelSessions, MaxChannelRecords),
                     atoms : SeqsUpTo(ChannelAtoms, MaxChannelRecords)]
       \/ input \in [family : {"validity"},
                     sessions : SeqsUpTo(ValiditySessions, MaxValidityRecords),
                     leads : SeqsUpTo(ValidityLeads, MaxValidityRecords),
                     contacts : SeqsUpTo(ValidityContacts, MaxValidityRecords),
                     transactions : SeqsUpTo(ValidityTransactions, MaxValidityRecords),
                     sourceData : SeqsUpTo(ValiditySourceData, MaxValidityRecords),
                     atoms : SeqsUpTo(ValidityAtoms, MaxValidityRecords)]

CalculateROAS ==
    /\ input.family = "metrics" /\ output = NoOutput
    /\ output' = Returned("calculateROAS",
                          calculateROAS(input.transactions, input.sourceData))
    /\ UNCHANGED <<pipelineVars, timeZone, argv, input>>

CalculateCAC ==
    /\ input.family = "metrics" /\ output = NoOutput
    /\ output' = Returned("calculateCAC",
                          calculateCAC(input.transactions, input.sourceData))
    /\ UNCHANGED <<pipelineVars, timeZone, argv, input>>

CalculateConversionRates ==
    /\ input.family = "funnel" /\ output = NoOutput
    /\ output' = Returned("calculateConversionRates",
                          calculateConversionRates(input.sessions, input.leads,
                                                   input.contacts, input.transactions))
    /\ UNCHANGED <<pipelineVars, timeZone, argv, input>>

AnalyzeChannelDistribution ==
    /\ input.family = "channels" /\ output = NoOutput
    /\ output' = Returned("analyzeChannelDistribution",
                          analyzeChannelDistribution(input.sessions, input.atoms))
    /\ UNCHANGED <<pipelineVars, timeZone, argv, input>>

CheckDataValidity ==
    /\ input.family = "validity" /\ output = NoOutput
    /\ output' = Returned("checkDataValidity",
                          checkDataValidity(input.sessions, input.leads, input.contacts,
                                            input.transactions, input.sourceData,
                                            input.atoms))
    /\ UNCHANGED <<pipelineVars, timeZone, argv, input>>

NextAnalysis ==
    \/ CalculateROAS
    \/ CalculateCAC
    \/ CalculateConversionRates
    \/ AnalyzeChannelDistribution
    \/ CheckDataValidity

SpecAnalysis == InitAnalysis /\ [][NextAnalysis]_vars

Called(op) == output # NoOutput /\ output.op = op

RECURSIVE Total(_, _)
\* The sum of the whole-number amounts `field` of the records of s.
Total(s, field) == IF s = <<>> THEN 0 ELSE s[1][field][1] + Total(Tail(s), field)

\* The rational v is numerator / denominator (denominator # 0).
IsRatio(v, numerator, denominator) == v[1] * denominator = numerator * v[2]

\* C8: calculateROAS returns sum(paid amounts) / sum(budgetSpent) when the
\* total spend is non-zero and exactly 0 when it is 0 (empty sourceData included).
C8_ROAS ==
    Called("calculateROAS") =>
        LET revenue == Total(input.transactions, "paidSumOriginalCurrency")
            spend   == Total(input.sourceData, "budgetSpent")
        IN  IF spend = 0 THEN output.value = R(0)
            ELSE IsRatio(output.value, revenue, spend)

\* Revenue 100 over a spend of 1 + 3 split across two records: ROAS 25.
C8_Witness ==
    /\ Called("calculateROAS")
    /\ Len(input.sourceData) = 2
    /\ Total(input.sourceData, "budgetSpent") = 4
    /\ Total(input.transactions, "paidSumOriginalCurrency") = 100
    /\ output.value = R(25)

\* The distinct clientIds among the transactions whose first-payment flag is true.
FirstPaymentClientIds(transactions) ==
    {c \in {"c1", "c2"} :
        \E i \in 1..Len(transactions) :
            transactions[i].mcId = c /\ transactions[i].ch_isFirstClientPaid}

\* C9: calculateCAC returns sum(budgetSpent) / (number of distinct clientIds
\* among first-payment transactions), and exactly 0 when that number is 0;
\* transactions sharing one clientId count once.
C9_CAC ==
    Called("calculateCAC") =>
        LET customers == Cardinality(FirstPaymentClientIds(input.transactions))
            spend     == Total(input.sourceData, "budgetSpent")
        IN  IF customers = 0 THEN output.value = R(0)
            ELSE IsRatio(output.value, spend, customers)

\* Two first-payment transactions of the same client and a spend of 3: CAC 3.
C9_Witness ==
    /\ Called("calculateCAC")
    /\ Len(input.transactions) = 2
    /\ \A i \in 1..2 : input.transactions[i].ch_isFirstClientPaid
                       /\ input.transactions[i].mcId = "c1"
    /\ Total(input.sourceData, "budgetSpent") = 3
    /\ output.value = R(3)

\* v is numerator / denominator * 100, or 0 when the denominator count is 0.
IsRate(v, numerator, denominator) ==
    IF denominator = 0 THEN v = R(0) ELSE IsRatio(v, 100 * numerator, denominator)

StageNames ==
    << "Visitor to Lead", "Lead to Contact", "Contact to Customer",
       "Overall (Visitor to Customer)" >>

\* C10: calculateConversionRates returns exactly four stages in the order
\* Visitor to Lead, Lead to Contact, Contact to Customer, Overall (Visitor to
\* Customer), over distinct session identities (clientId if present, else
\* userPseudoId), distinct lead and contact clientIds and distinct clientIds
\* of first-payment transactions; each rate is numerator/denominator*100, and
\* 0 when its denominator count is 0.
C10_ConversionRates ==
    Called("calculateConversionRates") =>
        LET visitors  == Cardinality({IF x.mcid = "" THEN x.userPseudoId ELSE x.mcid :
                                          x \in Range(input.sessions)})
            leads     == Cardinality({x.mcId : x \in Range(input.leads)})
            contacts  == Cardinality({x.mcId : x \in Range(input.contacts)})
            customers == Cardinality(FirstPaymentClientIds(input.transactions))
            stages    == output.value
        IN  /\ Len(stages) = 4
            /\ \A i \in 1..4 : stages[i].name = StageNames[i]
            /\ IsRate(stages[1].current, leads, visitors)
            /\ IsRate(stages[2].current, contacts, leads)
            /\ IsRate(stages[3].current, customers, contacts)
            /\ IsRate(stages[4].current, customers, visitors)

\* An anonymous and an identified session of the same browser are two
\* visitors; with one lead, one contact and no customer: 50, 100, 0, 0.
C10_Witness ==
    /\ Called("calculateConversionRates")
    /\ input.sessions = << [mcid |-> "", userPseudoId |-> "u1"],
                           [mcid |-> "c1", userPseudoId |-> "u1"] >>
    /\ Len(input.leads) = 1 /\ Len(input.contacts) = 1
    /\ input.transactions = <<>>
    /\ [i \in 1..4 |-> output.value[i].current] = <<R(50), R(100), R(0), R(0)>>

RECURSIVE SumOf(_, _)
\* The sum of the rationals f[x] over the finite set `keys`.
SumOf(f, keys) ==
    IF keys = {} THEN R(0)
    ELSE LET k == CHOOSE x \in keys : TRUE
         IN  RAdd(f[k], SumOf(f, keys \ {k}))

\* C11: analyzeChannelDistribution returns one entry per distinct
\* sourceGroupName of the atoms, with the number of atoms of the group as its
\* count and count / (sum of all groups' counts) * 100 as its percentage, so
\* the percentages of a non-empty Atom directory sum to 100.
C11_ChannelShares ==
    Called("analyzeChannelDistribution") =>
        LET channels == output.value
            groups == {a.sourceGroupName : a \in Range(input.atoms)}
            atomsOf(g) == Cardinality({i \in 1..Len(input.atoms) :
                                          input.atoms[i].sourceGroupName = g})
            counted == Len(input.atoms)
        IN  /\ Len(channels) = Cardinality(groups)
            /\ {channels[i].name : i \in 1..Len(channels)} = groups
            /\ \A i \in 1..Len(channels) :
                   /\ channels[i].current.sessions = atomsOf(channels[i].name)
                   /\ IsRate(channels[i].current.percentage,
                             atomsOf(channels[i].name), counted)
            /\ input.atoms # <<>> =>
                   SumOf([i \in 1..Len(channels) |-> channels[i].current.percentage],
                         1..Len(channels)) = R(100)

AllEmpty ==
    /\ input.sessions = <<>> /\ input.leads = <<>> /\ input.contacts = <<>>
    /\ input.transactions = <<>> /\ input.sourceData = <<>> /\ input.atoms = <<>>

EmptyDatasetIssues ==
    << "Sessions dataset is empty", "Leads dataset is empty",
       "Contacts dataset is empty", "Transactions dataset is empty",
       "Source data dataset is empty", "Atoms dataset is empty" >>

IssueTexts(validation) == [i \in 1..Len(validation.issues) |-> validation.issues[i].msg]

\* C14 (as stated): validating six empty collections yields isValid = false
\* with exactly 6 issues, one per empty collection, and no other issue.
C14_SixIssuesOnly ==
    (Called("checkDataValidity") /\ AllEmpty) =>
        /\ output.value.isValid = FALSE
        /\ IssueTexts(output.value) = EmptyDatasetIssues

\* C14 (amended): validating six empty collections yields isValid = false
\* with exactly 7 issues: one per empty collection, in the order sessions,
\* leads, contacts, transactions, source data, atoms, followed by the
\* session-volume issue (0 sessions is below 70% of the expected volume),
\* with the volume suggestion as the only suggestion; no coverage issue.
C14_SixEmptyIssuesAndVolume ==
    (Called("checkDataValidity") /\ AllEmpty) =>
        /\ output.value.isValid = FALSE
        /\ IssueTexts(output.value) =
               EmptyDatasetIssues \o <<"Session volume is significantly lower than expected">>
        /\ output.value.issues[7].num = R(0)
        /\ output.value.suggestions =
               <<"Check if there are tracking issues or a genuine decrease in traffic">>

C14_Witness ==
    /\ Called("checkDataValidity") /\ AllEmpty
    /\ Len(output.value.issues) = 7
    /\ ~output.value.isValid

\* C15: checkDataValidity reports the lead-coverage issue and its suggestion
\* if and only if some distinct lead identity has no matching session
\* identity, a session's identity being its clientId if present and its
\* userPseudoId otherwise; isValid is true exactly when there is no issue.
C15_LeadCoverage ==
    Called("checkDataValidity") =>
        LET sessionIdentities ==
                {IF s.mcid # "" THEN s.mcid ELSE s.userPseudoId : s \in Range(input.sessions)}
            uncovered == {l.mcId : l \in Range(input.leads)} \ sessionIdentities
            texts == Range(IssueTexts(output.value))
        IN  /\ ("% of leads have no corresponding session data" \in texts)
                    <=> (uncovered # {})
            /\ ("Improve session tracking to ensure all leads have associated session data"
                    \in Range(output.value.suggestions)) <=> (uncovered # {})
            /\ output.value.isValid <=> (output.value.issues = <<>>)

-----------------------------------------------------------------------------
(* The trend composition applied to arbitrary current and previous record  *)
(* sets (specification SpecTrend).                                         *)

\* The longest array of each collection, per period, handed to calculateMetricsTrend.
MaxMetricsTrendRecords == 1

\* The longest array of each collection, per period, handed to calculateConversionsTrend.
MaxFunnelTrendRecords == 1

TrendTransactions ==
    [mcId : {"c1"}, paidSumOriginalCurrency : {R(50), R(1000), R(1090), R(1100)},
     ch_isFirstClientPaid : {TRUE}]
TrendSourceData == [budgetSpent : {R(0), R(10), R(11)}]

TrendSessions ==
    {[mcid |-> "", userPseudoId |-> "u1"], [mcid |-> "c1", userPseudoId |-> "u1"]}
TrendLeads == [mcId : {"c1", "c2"}]
TrendContacts == [mcId : {"c1"}]
TrendFunnelTransactions ==
    [mcId : {"c1"}, paidSumOriginalCurrency : {R(100)}, ch_isFirstClientPaid : {TRUE}]

\* The longest sessions / atoms array, per period, handed to calculateChannelsTrend.
MaxChannelTrendRecords == 2

\* process.env: the settings read by config.analysis, unset or a number.
Environments ==
    [HISTORICAL_DAYS : {None}, SIGNIFICANT_CHANGE_THRESHOLD : {None, Some(20)}]

MetricsPeriod ==
    [transactions : SeqsUpTo(TrendTransactions, MaxMetricsTrendRecords),
     sourceData : SeqsUpTo(TrendSourceData, MaxMetricsTrendRecords)]

FunnelPeriod ==
    [sessions : SeqsUpTo(TrendSessions, MaxFunnelTrendRecords),
     leads : SeqsUpTo(TrendLeads, MaxFunnelTrendRecords),
     contacts : SeqsUpTo(TrendContacts, MaxFunnelTrendRecords),
     transactions : SeqsUpTo(TrendFunnelTransactions, MaxFunnelTrendRecords)]

InitTrend ==
    /\ PipelineIdle
    /\ timeZone = UTC /\ argv = <<>>
    /\ output = NoOutput
    /\ \/ input \in [family : {"metrics"}, env : Environments,
                     current : MetricsPeriod, previous : MetricsPeriod]
       \/ input \in [family : {"funnel"}, env : Environments,
                     current : FunnelPeriod, previous : FunnelPeriod]
       \/ input \in [family : {"channels"}, env : Environments,
                     currentSessions : SeqsUpTo(ChannelSessions, MaxChannelTrendRecords),
                     previousSessions : SeqsUpTo(ChannelSessions, MaxChannelTrendRecords),
                     atoms : SeqsUpTo(ChannelAtoms, MaxChannelTrendRecords)]

CalculateMetricsTrend ==
    /\ input.family = "metrics" /\ output = NoOutput
    /\ output' = Returned("calculateMetricsTrend",
                          calculateMetricsTrend(input.current.transactions,
                                                input.current.sourceData,
                                                input.previous.transactions,
                                                input.previous.sourceData))
    /\ UNCHANGED <<pipelineVars, timeZone, argv, input>>

CalculateConversionsTrend ==
    /\ input.family = "funnel" /\ output = NoOutput
    /\ output' = Returned("calculateConversionsTrend",
                          calculateConversionsTrend(input.current.sessions,
                                                    input.current.leads,
                                                    input.current.contacts,
                                                    input.current.transactions,
                                                    input.previous.sessions,
                                                    input.previous.leads,
                                                    input.previous.contacts,
                                                    input.previous.transactions))
    /\ UNCHANGED <<pipelineVars, timeZone, argv, input>>

CalculateChannelsTrend ==
    /\ input.family = "channels" /\ output = NoOutput
    /\ output' = Returned("calculateChannelsTrend",
                          calculateChannelsTrend(input.currentSessions,
                                                 input.previousSessions, input.atoms))
    /\ UNCHANGED <<pipelineVars, timeZone, argv, input>>

NextTrend ==
    \/ CalculateMetricsTrend
    \/ CalculateConversionsTrend
    \/ CalculateChannelsTrend

SpecTrend == InitTrend /\ [][NextTrend]_vars

\* The trends the call emitted: ROAS and CAC, or the four funnel stages.
EmittedTrends ==
    IF Called("calculateMetricsTrend") THEN {output.value.roas, output.value.cac}
    ELSE IF Called("calculateConversionsTrend") THEN Range(output.value)
    ELSE {}

\* C5: zero-baseline rule: a trend whose previous value is 0 has
\* percentageChange = 0 and is significant exactly when its current value is > 0.
C5_ZeroBaseline ==
    \A t \in EmittedTrends :
        t.previous = R(0) =>
            /\ t.percentageChange = R(0)
            /\ t.isSignificant <=> t.current[1] > 0

\* pc = (current - previous) / previous * 100, read backwards:
\* previous grown by pc percent is current
IsPercentageChange(pc, current, previous) ==
    RAdd(previous, RMul(RDiv(pc, R(100)), previous)) = current

\* C6: a trend whose previous value is > 0 has
\* percentageChange = (current - previous) / previous * 100 and is significant
\* exactly when |percentageChange| >= 10, the boundary included: 100 -> 109
\* gives 9 and not significant, 100 -> 110 gives exactly 10 and significant.
C6_PercentageChangeAndThreshold ==
    \A t \in EmittedTrends :
        t.previous[1] > 0 =>
            /\ IsPercentageChange(t.percentageChange, t.current, t.previous)
            /\ t.isSignificant <=> Abs(t.percentageChange[1]) >= 10 * t.percentageChange[2]
            /\ (t.previous = R(100) /\ t.current = R(109)) =>
                   t.percentageChange = R(9) /\ ~t.isSignificant
            /\ (t.previous = R(100) /\ t.current = R(110)) =>
                   t.percentageChange = R(10) /\ t.isSignificant

\* ROAS went from 100 to 110: a change of exactly 10, reported significant.
C6_Witness ==
    /\ Called("calculateMetricsTrend")
    /\ output.value.roas.previous = R(100)
    /\ output.value.roas.current = R(110)
    /\ output.value.roas.percentageChange = R(10)
    /\ output.value.roas.isSignificant

\* C28: the previous ROAS and CAC reported by calculateMetricsTrend are the
\* unguarded values for the previous record sets, empty or not: revenue /
\* spend (0 when the spend is 0) and spend / distinct first-payment clients
\* (0 when there is none).
C28_GuardChangesNothing ==
    Called("calculateMetricsTrend") =>
        LET revenue   == Total(input.previous.transactions, "paidSumOriginalCurrency")
            spend     == Total(input.previous.sourceData, "budgetSpent")
            customers == Cardinality(FirstPaymentClientIds(input.previous.transactions))
        IN  /\ IF spend = 0 THEN output.value.roas.previous = R(0)
               ELSE IsRatio(output.value.roas.previous, revenue, spend)
            /\ IF customers = 0 THEN output.value.cac.previous = R(0)
               ELSE IsRatio(output.value.cac.previous, spend, customers)

\* Previous transactions without previous source data, and a current period
\* with both: the guard answers 0 for both metrics, as the calculators would.
C28_Witness ==
    /\ Called("calculateMetricsTrend")
    /\ input.previous.transactions # <<>> /\ input.previous.sourceData = <<>>
    /\ output.value.roas.current[1] > 0 /\ output.value.cac.current[1] > 0
    /\ output.value.roas.previous = R(0) /\ output.value.cac.previous = R(0)

\* C21: every entry of the channel trend carries the group's current and
\* previous share, the percentage change previous > 0 ? (current - previous)
\* / previous * 100 : 0, and an isSignificant flag decided by the rule of
\* the other trends (previous = 0: current > 0; else |change| >= 10).
C21_ChannelTrendIsComposed ==
    Called("calculateChannelsTrend") =>
        \A i \in 1..Len(output.value) :
            LET t == output.value[i]
                current == t.current.percentage
                previous == t.previous.percentage
            IN  /\ IF previous[1] > 0 THEN IsPercentageChange(t.change, current, previous)
                   ELSE t.change = R(0)
                /\ "isSignificant" \in DOMAIN t
                /\ t.isSignificant <=>
                       IF previous = R(0) THEN current[1] > 0
                       ELSE Abs(t.change[1]) >= 10 * t.change[2]

\* The threshold the run is configured with.
ConfiguredThreshold == config(input.env).analysis.significantChangeThreshold

-----------------------------------------------------------------------------
(* The date-range filters and the lookback start applied to arbitrary      *)
(* arguments (specification SpecDates).                                    *)

\* The longest array handed to a date-range filter.
MaxFilterRecords == 2

TimeZones == {UTC, Berlin, LosAngeles}

\* "", 2024-02-14, 2024-02-29, 2024-03-15
FilterDates == {0, 45, 60, 75}
FilterBounds == {45, 75}

\* 2024-03-01, 2024-03-15, 2024-06-17, 2024-11-15
LookbackDates == {61, 75, 169, 320}

Entities == {"sessions", "leads", "contacts", "transactions", "sourceData"}

FilterRecords(entity) ==
    CASE entity = "sessions" ->
             [id : {"r1", "r2"}, datetimeShifted : {<<d, Time>> : d \in FilterDates}]
      [] entity \in {"leads", "contacts"} ->
             [id : {"r1", "r2"}, datetimeCreatedShifted : {<<d, Time>> : d \in FilterDates}]
      [] entity = "transactions" ->
             [id : {"r1", "r2"}, paymentDatetimeShifted : {<<d, Time>> : d \in FilterDates}]
      [] entity = "sourceData" -> [atomId : {"r1", "r2"}, date : FilterDates]

\* The longest collection of the data set whose periods are built.
MaxPeriodRecords == 1

\* 2024-03-15, 2024-11-15
AnalysisDates == {75, 320}

\* The record dates around the window of the analysis date.
PeriodDates(date) == {date - 31, date - 30, date - 1, date}

\* The loaded data sets of the analysis date: sessions, transactions and
\* source data dated around the window.
PeriodDataSets(date) ==
    [sessions : SeqsUpTo([mcid : {"c1"}, userPseudoId : {"u1"},
                          datetimeShifted : {<<d, Time>> : d \in PeriodDates(date)}],
                         MaxPeriodRecords),
     leads : {<<>>}, contacts : {<<>>}, contact2Leads : {<<>>},
     transactions : SeqsUpTo([mcId : {"c1"},
                              paymentDatetimeShifted :
                                  {<<d, Time>> : d \in PeriodDates(date)},
                              paidSumOriginalCurrency : {R(100)},
                              ch_isFirstClientPaid : {TRUE}],
                             MaxPeriodRecords),
     sourceData : SeqsUpTo([date : PeriodDates(date), atomId : {"a1"},
                            budgetSpent : {R(10)}, clicks : {R(1)}],
                           MaxPeriodRecords),
     atoms : {<<>>}]

InitDates ==
    /\ PipelineIdle
    /\ argv = <<>>
    /\ output = NoOutput
    /\ \/ /\ timeZone = UTC
          /\ \E entity \in Entities :
                 input \in [family : {"filter"}, entity : {entity},
                            records : SeqsUpTo(FilterRecords(entity), MaxFilterRecords),
                            startDate : FilterBounds, endDate : FilterBounds]
       \/ /\ timeZone \in TimeZones
          /\ input \in [family : {"lookback"}, currentDate : LookbackDates,
                        lookbackDays : {None, Some(7), Some(30)}]
       \/ /\ timeZone \in TimeZones
          /\ \E date \in AnalysisDates :
                 input \in [family : {"periods"},
                            env : [HISTORICAL_DAYS : {None, Some(7)},
                                   SIGNIFICANT_CHANGE_THRESHOLD : {None}],
                            date : {date}, testData : PeriodDataSets(date)]

\* One of the five filters is applied to the records of its entity type.
ApplyFilter(entity, op, filtered) ==
    /\ input.family = "filter" /\ input.entity = entity /\ output = NoOutput
    /\ output' = Returned(op, filtered)
    /\ UNCHANGED <<pipelineVars, timeZone, argv, input>>

FilterSessionsByDateRange ==
    ApplyFilter("sessions", "filterSessionsByDateRange",
                filterSessionsByDateRange(input.records, input.startDate, input.endDate))

FilterLeadsByDateRange ==
    ApplyFilter("leads", "filterLeadsByDateRange",
                filterLeadsByDateRange(input.records, input.startDate, input.endDate))

FilterContactsByDateRange ==
    ApplyFilter("contacts", "filterContactsByDateRange",
                filterContactsByDateRange(input.records, input.startDate, input.endDate))

FilterTransactionsByDateRange ==
    ApplyFilter("transactions", "filterTransactionsByDateRange",
                filterTransactionsByDateRange(input.records, input.startDate, input.endDate))

FilterSourceDataByDateRange ==
    ApplyFilter("sourceData", "filterSourceDataByDateRange",
                filterSourceDataByDateRange(input.records, input.startDate, input.endDate))

\* The call with `lookbackDays` omitted takes the parameter's default.
CalculatePreviousPeriodStartDate ==
    /\ input.family = "lookback" /\ output = NoOutput
    /\ output' = Returned("calculatePreviousPeriodStartDate",
                          calculatePreviousPeriodStartDate(
                              input.currentDate,
                              IF input.lookbackDays = None THEN DefaultLookbackDays
                              ELSE input.lookbackDays[1]))
    /\ UNCHANGED <<pipelineVars, timeZone, argv, input>>

\* The state an analysis stage receives for the analysis date and data set.
StageInput == [InitialState EXCEPT !.date = input.date, !.testData = Some(input.testData)]

\* The period record sets one of the three analysis stages builds.
BuildPeriods(stage, built) ==
    /\ input.family = "periods" /\ output = NoOutput
    /\ output' = Returned(stage, built)
    /\ UNCHANGED <<pipelineVars, timeZone, argv, input>>

BuildMetricsPeriods == BuildPeriods("analyze_metrics", MetricsPeriods(StageInput))

BuildConversionsPeriods == BuildPeriods("analyze_conversions", ConversionsPeriods(StageInput))

BuildChannelsPeriods == BuildPeriods("analyze_channels", ChannelsPeriods(StageInput))

NextDates ==
    \/ BuildMetricsPeriods
    \/ BuildConversionsPeriods
    \/ BuildChannelsPeriods
    \/ FilterSessionsByDateRange
    \/ FilterLeadsByDateRange
    \/ FilterContactsByDateRange
    \/ FilterTransactionsByDateRange
    \/ FilterSourceDataByDateRange
    \/ CalculatePreviousPeriodStartDate

SpecDates == InitDates /\ [][NextDates]_vars

\* The date a record of the entity type is filtered by: the text before the
\* first space of its shifted timestamp, the date field for source data.
RecordDate(entity, r) ==
    CASE entity = "sessions" -> r.datetimeShifted[1]
      [] entity \in {"leads", "contacts"} -> r.datetimeCreatedShifted[1]
      [] entity = "transactions" -> r.paymentDatetimeShifted[1]
      [] entity = "sourceData" -> r.date

RECURSIVE Dated(_, _, _, _)
\* The records of s dated in [startDate, endDate), in their order in s.
Dated(entity, s, startDate, endDate) ==
    IF s = <<>> THEN <<>>
    ELSE LET d == RecordDate(entity, Head(s))
             rest == Dated(entity, Tail(s), startDate, endDate)
         IN  IF startDate <= d /\ d < endDate THEN <<Head(s)>> \o rest ELSE rest

\* C12: each of the five date-range filters returns exactly the records
\* whose date satisfies startDate <= date < endDate, in their original
\* order; a record dated startDate is kept, a record dated endDate is dropped.
C12_DateRangeFilter ==
    (output # NoOutput /\ input.family = "filter") =>
        /\ output.value =
               Dated(input.entity, input.records, input.startDate, input.endDate)
        /\ \A i \in 1..Len(input.records) :
               LET d == RecordDate(input.entity, input.records[i])
               IN  /\ (d = input.startDate /\ input.startDate < input.endDate)
                          => input.records[i] \in Range(output.value)
                   /\ d = input.endDate => input.records[i] \notin Range(output.value)

\* Transactions dated 2024-03-15 and 2024-02-14 filtered by
\* [2024-02-14, 2024-03-15): only the second is returned.
C12_Witness ==
    /\ Called("filterTransactionsByDateRange")
    /\ input.startDate = 45 /\ input.endDate = 75
    /\ Len(input.records) = 2
    /\ input.records[1].paymentDatetimeShifted[1] = 75
    /\ input.records[2].paymentDatetimeShifted[1] = 45
    /\ output.value = <<input.records[2]>>

\* C13: calculatePreviousPeriodStartDate returns the calendar date exactly
\* lookbackDays days (30 when omitted) before currentDate, e.g. 2024-05-18
\* for ("2024-06-17", 30).
C13_LookbackStart ==
    Called("calculatePreviousPeriodStartDate") =>
        LET days == IF input.lookbackDays = None THEN 30 ELSE input.lookbackDays[1]
        IN  /\ output.value = input.currentDate - days
            /\ (input.currentDate = 169 /\ days = 30) => output.value = 139

\* C23: whichever of the three analysis stages builds it, and whatever
\* historical-days value is configured, the previous-period set of each
\* collection consists of exactly the loaded records dated in
\* [date - 30 days, date), start included and end excluded.
C23_SamePreviousWindow ==
    (output # NoOutput /\ input.family = "periods") =>
        \A coll \in Collections :
            \A r \in Range(output.value.current[coll]) :
                r \in Range(output.value.previous[coll])
                    <=> /\ input.date - 30 <= RecordDate(coll, r)
                        /\ RecordDate(coll, r) < input.date

-----------------------------------------------------------------------------
(* The command-line parsing applied to arbitrary argument lists            *)
(* (specification SpecArgs).                                               *)

\* The longest argument list handed to the program.
MaxArgs == 2

InitArgs ==
    /\ PipelineIdle
    /\ timeZone = UTC
    /\ argv \in SeqsUpTo(ArgTokens, MaxArgs)
    /\ input = [family |-> "args"]
    /\ output = NoOutput

GetDateFromArgs ==
    /\ input.family = "args" /\ output = NoOutput
    /\ output' = Returned("getDateFromArgs", getDateFromArgs(argv))
    /\ UNCHANGED <<pipelineVars, timeZone, argv, input>>

NextArgs == GetDateFromArgs

SpecArgs == InitArgs /\ [][NextArgs]_vars

\* The text after the first "=" of a --date=X argument.
ValueAfterEquals ==
    [a \in {"--date=2024-03-15", "--date=15.03.2024", "--date=", "--date=2024-03-15=x"} |->
        CASE a = "--date=2024-03-15" -> "2024-03-15"
          [] a = "--date=15.03.2024" -> "15.03.2024"
          [] a = "--date=" -> ""
          [] a = "--date=2024-03-15=x" -> "2024-03-15=x"]

\* The texts made of four digits, a dash, two digits, a dash and two digits.
IsDateFormat(text) == text \in {"2024-03-15", "2024-13-45"}

\* The values X supplied by the first date argument of the command line:
\* the argument after --date or -d, or the text after --date=.
SuppliedDates ==
    LET options == {i \in 1..Len(argv) :
                       argv[i] \in {"--date", "-d"} \cup DOMAIN ValueAfterEquals}
    IN  IF options = {} THEN {}
        ELSE LET i == CHOOSE k \in options : \A j \in options : k <= j
             IN  IF argv[i] \in DOMAIN ValueAfterEquals THEN {ValueAfterEquals[argv[i]]}
                 ELSE IF i < Len(argv) THEN {argv[i + 1]}
                 ELSE {}

\* C18: a date argument whose value is not in YYYY-MM-DD format ends the
\* process with a usage error, and a supplied date that is accepted is the
\* date used: the default is used only when no date argument is supplied.
C18_MalformedDateIsFatal ==
    Called("getDateFromArgs") =>
        \A X \in SuppliedDates :
            /\ ~IsDateFormat(X) => output.value.exit
            /\ ~output.value.exit => output.value.date = X

=============================================================================
